---- MODULE Spec2Model ----
(***************************************************************************)
(* Deployment orchestrator of edge-terrarium (terrarium_cli).              *)
(*                                                                         *)
(* The module holds one state machine per orchestration component, each    *)
(* with its own specification:                                             *)
(*   SpecResolve / SpecResolveTwice  dependency order resolver             *)
(*   SpecCluster                     cluster health check and setup        *)
(*   SpecPrune                       stale-resource pruning                *)
(*   SpecApply                       manifest application                  *)
(*   SpecTunnel                      tunnel establishment                  *)
(*   SpecCompose                     compose deploy                        *)
(*   SpecVault                       secret initialization                 *)
(*   SpecOpening                     opening steps of deploy               *)
(*   SpecWait                        readiness wait of the cluster deploy  *)
(***************************************************************************)
EXTENDS Integers, Sequences, FiniteSets, TLC

(***************************************************************************)
(* Bounds of the model.                                                    *)
(***************************************************************************)
\* number of service names the resolver's descriptor sets are drawn from
MaxApps == 3
\* number of successive runs of setup_k3s_cluster against the same host
MaxSetups == 2
\* number of resource names the namespace and the service set are drawn from
MaxResources == 3
\* number of service names manifests are generated for, besides nginx and vault
MaxManifestApps == 2
\* number of service names the descriptors of a tunnel run are drawn from
MaxTunnelApps == 2
\* runs of tunnel establishment in one deploy
MaxTunnelRuns == 2
\* number of services of a compose deploy
MaxComposeApps == 2
\* number of paths in the secrets file
MaxSecretPaths == 2
\* number of service names the descriptors of the readiness wait are drawn from
MaxWaitApps == 2

(***************************************************************************)
(* Strings.  Python compares str code point by code point ('-' < '.' <    *)
(* digits < '_' < lower-case letters) and `x in s` is a substring search.  *)
(***************************************************************************)
CharTable == "-.0123456789_abcdefghijklmnopqrstuvwxyz"

CharCode(c) == CHOOSE i \in 1..Len(CharTable) : SubSeq(CharTable, i, i) = c

\* a < b for two str values
RECURSIVE StrLess(_, _)
StrLess(a, b) ==
    IF Len(b) = 0 THEN FALSE
    ELSE IF Len(a) = 0 THEN TRUE
    ELSE IF SubSeq(a, 1, 1) # SubSeq(b, 1, 1)
         THEN CharCode(SubSeq(a, 1, 1)) < CharCode(SubSeq(b, 1, 1))
         ELSE StrLess(SubSeq(a, 2, Len(a)), SubSeq(b, 2, Len(b)))

\* word in s
Contains(s, word) ==
    \E i \in 1..Len(s) : i + Len(word) - 1 <= Len(s) /\ SubSeq(s, i, i + Len(word) - 1) = word

\* service names the resolver's descriptor sets are drawn from
NameTable == <<"db", "api", "logthon", "web", "api-gateway">>

\* the names descriptor sets are drawn from
Names == {NameTable[i] : i \in 1..MaxApps}

\* every order in which a Python set / directory listing may be iterated
Perms(S) ==
    {f \in [1..Cardinality(S) -> S] : \A x \in S : \E i \in 1..Cardinality(S) : f[i] = x}

Range(s) == {s[i] : i \in 1..Len(s)}

\* list.sort() / sorted() on a list of names
RECURSIVE Insert(_, _)
Insert(x, s) ==
    IF s = <<>> THEN <<x>>
    ELSE IF ~StrLess(Head(s), x) THEN <<x>> \o s
    ELSE <<Head(s)>> \o Insert(x, Tail(s))

RECURSIVE SortNames(_)
SortNames(s) == IF s = <<>> THEN <<>> ELSE Insert(Head(s), SortNames(Tail(s)))

IsSorted(s) == \A i, j \in 1..Len(s) : i < j => StrLess(s[i], s[j])

(***************************************************************************)
(* State.                                                                  *)
(***************************************************************************)
VARIABLES
    \* ---- which copy of the orchestration code runs ----
    impl,           \* "manager" (K3sDeploymentManager) | "command" (DeployCommand)
    \* ---- dependency order resolver (_calculate_deployment_order) ----
    app_names,      \* set of the descriptors' names
    app_deps,       \* name -> set of declared dependencies
    deployed,       \* local: names already placed
    order,          \* local: the list being built
    remainder,      \* the list appended by the fallback of the current call
    passes,         \* iterations of the while loop in the current call
    rpc,            \* "idle" | "loop" | "ret"
    callsLeft,      \* calls still to be made on this descriptor set
    returned,       \* the lists returned so far, one per call
    \* ---- cluster health check and setup (setup_k3s_cluster) ----
    cluster,        \* the k3d cluster edge-terrarium as the environment holds it
    cluster0,       \* the cluster as it was when setup started
    kpc,            \* control position of setup_k3s_cluster
    setups,         \* runs of setup_k3s_cluster started so far
    hc,             \* what the last health check observed and answered
    cmdLog,         \* the infrastructure commands issued so far, in order
    failedAt,       \* the step whose command made setup fail, or "none"
    setupResult,    \* what setup_k3s_cluster returned, once kpc = "done"
    \* ---- stale-resource pruning (_cleanup_old_k3s_resources) ----
    current_app_names,      \* {app.name for app in current_apps}
    existing_deployments,   \* deployments of namespace edge-terrarium (environment)
    existing_services,      \* services of namespace edge-terrarium (environment)
    ppc,                    \* "idle" | "deployments" | "services" | "done"
    to_remove,              \* names the running for loop has still to visit
    deleteLog,              \* the kubectl delete commands issued: <<kind, name>>
    listing,                \* what the kubectl get calls taken so far returned
    \* ---- manifest application (deploy_to_k3s) ----
    manifest_apps,  \* names of the services besides nginx and vault
    volume_apps,    \* names of the services that declare volumes
    k3s_dir,        \* the file names os.listdir("configs/k3s") returns
    apc,            \* control position of deploy_to_k3s
    apply_queue,    \* files the running for loop has still to apply
    applied,        \* the files handed to `kubectl apply -f`, in order
    applyFailed,    \* TRUE once a command made deploy_to_k3s return False
    \* ---- tunnel establishment (_setup_k3s_port_forwarding) ----
    tunnel_apps,            \* the list load_apps() returns: [name, port, port_forward]
    port_forward_processes, \* the tracked list of process handles
    live_tunnels,           \* pids of the kubectl port-forward processes running
    spawnedRun,             \* the handles the current run has spawned, in order
    tpc,                    \* "idle", "vaulted", "gateway", "direct", "probing", "done", ...
    tunnel_i,               \* position of the for loop in tunnel_apps
    tunnelRuns,             \* runs of tunnel establishment started so far
    nextPid,                \* pid the next spawned process gets
    tunnelResult,           \* what the last finished run returned
    tunnelLog,              \* pattern-kills and spawns of the deploy, in order
    probe_i,                \* position of the tunnel verification in its probes
    probe_outcomes,         \* the kinds of outcome the probes of the verification ended in
    pods_running,           \* "Running" in the output of `kubectl get pods`
    tunnelRc,               \* what deploy returned, -1 before
    \* ---- compose deploy (DockerDeploymentManager.deploy) ----
    compose_apps,   \* the list load_apps() returns, by name
    build_context,  \* the names whose docker.build_context is non-empty
    buildLog,       \* the docker build commands run: [app, tag]
    ps_report,      \* service -> state, as the last `docker-compose ps` printed it
    cpc,            \* control position of deploy
    stepLog,        \* the steps run so far, in order: [step, ok]
    build_i,        \* position of the for loop of build_app_images
    attempt,        \* local of start_docker_services: polls made
    waited,         \* seconds start_docker_services has slept in its loop
    vault_ready,    \* local of start_docker_services
    init_rc,        \* what _init_vault() returned, -1 before the call
    exitCode,       \* what deploy returned, -1 before it returns
    \* ---- secret initialization (VaultCommand._init_vault) ----
    secret_paths,   \* the paths of the dict _load_secrets_from_file() returns
    kv_mounted,     \* the store has the mount `secret` (environment)
    kv_store,       \* the paths the store holds a record for (environment)
    vpc,            \* "idle" | "health" | "enable" | "store" | "tls" | "done"
    write_queue,    \* paths the for loop of _store_secrets has still to post
    enable_status,  \* status code of the enable-mount response, 0 before it
    enable_report,  \* "none" | "success" | "warning": what was printed for it
    writes,         \* the paths posted so far, in order
    raisedAt,       \* the step whose request raised, or "none"
    vault_rc,       \* what _init_vault returned, -1 before it returns
    \* ---- the opening steps of deploy, either backend ----
    environment,    \* args.environment: "docker" | "k3s"
    installed,      \* the commands `which` finds on this host
    missing_deps,   \* local of check_all_dependencies
    opc,            \* "idle" | "deps" | "prereq" | "certs" | "cleanup" | "rest" | "done"
    infraLog,       \* the state-changing commands issued so far, in order
    openFailedAt,   \* the step that made deploy return 1, or "none"
    openRc,         \* what deploy returned, -1 before it returns
    \* ---- readiness wait (the wait loop of deploy_to_k3s) ----
    wait_apps,          \* names of the descriptors load_apps() returns
    wait_deps,          \* name -> declared dependencies
    dependency_order,   \* what _calculate_deployment_order returned
    wpc,                \* "idle" | "order" | "wait" | "probe" | "tunnels" | "verify" | "done"
    wait_i,             \* position of the for loop in dependency_order
    waitLog,            \* what the loop did so far, in order: [ev, svc, outcome]
    verify_returned,    \* what the last call of the verifier returned
    verifier_raised,    \* TRUE once an exception left the verifier
    waitRc              \* what deploy returned, -1 before it returns

resolverVars ==
    <<app_names, app_deps, deployed, order, remainder, passes, rpc, callsLeft, returned>>

clusterVars == <<cluster, cluster0, kpc, setups, hc, cmdLog, failedAt, setupResult>>

pruneVars ==
    <<current_app_names, existing_deployments, existing_services, ppc, to_remove, deleteLog,
      listing>>

applyVars ==
    <<manifest_apps, volume_apps, k3s_dir, apc, apply_queue, applied, applyFailed>>

tunnelVars ==
    <<tunnel_apps, port_forward_processes, live_tunnels, spawnedRun, tpc, tunnel_i,
      tunnelRuns, nextPid, tunnelResult, tunnelLog,
      probe_i, probe_outcomes, pods_running, tunnelRc>>

composeVars ==
    <<compose_apps, build_context, buildLog, ps_report, cpc, stepLog, build_i, attempt, waited, vault_ready, init_rc,
      exitCode>>

vaultCmdVars ==
    <<secret_paths, kv_mounted, kv_store, vpc, write_queue, enable_status,
      enable_report, writes, raisedAt, vault_rc>>

openingVars ==
    <<environment, installed, missing_deps, opc, infraLog, openFailedAt, openRc>>

waitVars ==
    <<wait_apps, wait_deps, dependency_order, wpc, wait_i, waitLog, verify_returned,
      verifier_raised, waitRc>>

vars == <<impl, resolverVars, clusterVars, pruneVars, applyVars, tunnelVars, composeVars, vaultCmdVars, openingVars, waitVars>>

\* what the actions of one component leave alone
NotResolver ==
    <<impl, clusterVars, pruneVars, applyVars, tunnelVars, composeVars, vaultCmdVars, openingVars, waitVars>>
NotCluster ==
    <<impl, resolverVars, pruneVars, applyVars, tunnelVars, composeVars, vaultCmdVars, openingVars, waitVars>>
NotPrune ==
    <<impl, resolverVars, clusterVars, applyVars, tunnelVars, composeVars, vaultCmdVars, openingVars, waitVars>>
NotApply ==
    <<impl, resolverVars, clusterVars, pruneVars, tunnelVars, composeVars, vaultCmdVars, openingVars, waitVars>>
NotTunnel ==
    <<impl, resolverVars, clusterVars, pruneVars, applyVars, composeVars, vaultCmdVars, openingVars, waitVars>>
NotCompose ==
    <<impl, resolverVars, clusterVars, pruneVars, applyVars, tunnelVars, vaultCmdVars, openingVars, waitVars>>
NotVaultCmd ==
    <<impl, resolverVars, clusterVars, pruneVars, applyVars, tunnelVars, composeVars, openingVars, waitVars>>
NotOpening ==
    <<impl, resolverVars, clusterVars, pruneVars, applyVars, tunnelVars, composeVars, vaultCmdVars, waitVars>>
NotWait ==
    <<impl, resolverVars, clusterVars, pruneVars, applyVars, tunnelVars, composeVars, vaultCmdVars, openingVars>>

(***************************************************************************)
(* The state of each component while another component's specification     *)
(* runs.                                                                   *)
(***************************************************************************)
NoCluster == [listed |-> FALSE, running |-> FALSE, reachable |-> FALSE, gen |-> 0]

NoHealthCheck ==
    [done |-> FALSE, listed |-> FALSE, connect |-> "none", result |-> FALSE, cleanup |-> FALSE]

ClusterIdle ==
    /\ cluster = NoCluster
    /\ cluster0 = NoCluster
    /\ kpc = "idle"
    /\ setups = 0
    /\ hc = NoHealthCheck
    /\ cmdLog = <<>>
    /\ failedAt = "none"
    /\ setupResult = FALSE

NoListing == [kinds |-> {}, names |-> {}]

PruneIdle ==
    /\ current_app_names = {}
    /\ existing_deployments = {}
    /\ existing_services = {}
    /\ ppc = "idle"
    /\ to_remove = {}
    /\ deleteLog = {}
    /\ listing = NoListing

ApplyIdle ==
    /\ manifest_apps = {}
    /\ volume_apps = {}
    /\ k3s_dir = {}
    /\ apc = "idle"
    /\ apply_queue = <<>>
    /\ applied = <<>>
    /\ applyFailed = FALSE

TunnelIdle ==
    /\ tunnel_apps = <<>>
    /\ port_forward_processes = <<>>
    /\ live_tunnels = {}
    /\ spawnedRun = <<>>
    /\ tpc = "idle"
    /\ tunnel_i = 0
    /\ tunnelRuns = 0
    /\ nextPid = 0
    /\ tunnelResult = FALSE
    /\ tunnelLog = <<>>
    /\ probe_i = 0
    /\ probe_outcomes = {}
    /\ pods_running = FALSE
    /\ tunnelRc = -1

ComposeIdle ==
    /\ compose_apps = <<>>
    /\ build_context = {}
    /\ buildLog = <<>>
    /\ ps_report = <<>>
    /\ cpc = "idle"
    /\ stepLog = <<>>
    /\ build_i = 0
    /\ attempt = 0
    /\ waited = 0
    /\ vault_ready = FALSE
    /\ init_rc = -1
    /\ exitCode = -1

VaultCmdIdle ==
    /\ secret_paths = <<>>
    /\ kv_mounted = FALSE
    /\ kv_store = {}
    /\ vpc = "idle"
    /\ write_queue = <<>>
    /\ enable_status = 0
    /\ enable_report = "none"
    /\ writes = <<>>
    /\ raisedAt = "none"
    /\ vault_rc = -1

OpeningIdle ==
    /\ environment = "none"
    /\ installed = {}
    /\ missing_deps = {}
    /\ opc = "idle"
    /\ infraLog = <<>>
    /\ openFailedAt = "none"
    /\ openRc = -1

WaitIdle ==
    /\ wait_apps = {}
    /\ wait_deps = <<>>
    /\ dependency_order = <<>>
    /\ wpc = "idle"
    /\ wait_i = 0
    /\ waitLog = <<>>
    /\ verify_returned = "unset"
    /\ verifier_raised = FALSE
    /\ waitRc = -1

ResolverIdle ==
    /\ app_names = {}
    /\ app_deps = <<>>
    /\ deployed = {}
    /\ order = <<>>
    /\ remainder = <<>>
    /\ passes = 0
    /\ rpc = "idle"
    /\ callsLeft = 0
    /\ returned = <<>>

(***************************************************************************)
(* Dependency order resolver.                                              *)
(***************************************************************************)
\* the inner for loop over app_deps[app_name]
DepsSatisfiedAny(name, dep_map, done) ==
    dep_map[name] = {} \/ dep_map[name] \cap done # {}

DepsSatisfied(name, dep_map, done) == \A dep \in dep_map[name] : dep \in done

\* names collected into ready_to_deploy by one scan of app_names
ReadyToDeploy(names, dep_map, done) ==
    {n \in names \ done : DepsSatisfied(n, dep_map, done)}

RemainingAll(names, done) == names

\* [name for name in app_names if name not in deployed]
Remaining(names, done) == {n \in names : n \notin done}

ResolverInputs(n) ==
    /\ app_names \in SUBSET Names
    /\ app_deps \in [app_names -> SUBSET Names]
    /\ deployed = {}
    /\ order = <<>>
    /\ remainder = <<>>
    /\ passes = 0
    /\ rpc = "idle"
    /\ callsLeft = n
    /\ returned = <<>>

\* entry of _calculate_deployment_order: deployed = set(), order = []
ResolveCall ==
    /\ rpc = "idle"
    /\ callsLeft > 0
    /\ callsLeft' = callsLeft - 1
    /\ deployed' = {}
    /\ order' = <<>>
    /\ remainder' = <<>>
    /\ passes' = 0
    /\ rpc' = "loop"
    /\ UNCHANGED <<app_names, app_deps, returned>>
    /\ UNCHANGED NotResolver

\* one iteration of the while loop that finds ready services
ResolvePass ==
    /\ rpc = "loop"
    /\ Len(order) < Cardinality(app_names)
    /\ ReadyToDeploy(app_names, app_deps, deployed) # {}
    /\ \E scan \in Perms(ReadyToDeploy(app_names, app_deps, deployed)) :
          /\ order' = order \o SortNames(scan)
          /\ deployed' = deployed \cup Range(scan)
    /\ passes' = passes + 1
    /\ UNCHANGED <<app_names, app_deps, remainder, rpc, callsLeft, returned>>
    /\ UNCHANGED NotResolver

\* one iteration of the while loop that finds nothing ready: extend and break
ResolveFallback ==
    /\ rpc = "loop"
    /\ Len(order) < Cardinality(app_names)
    /\ ReadyToDeploy(app_names, app_deps, deployed) = {}
    /\ \E scan \in Perms(Remaining(app_names, deployed)) :
          /\ remainder' = scan
          /\ order' = order \o scan
    /\ passes' = passes + 1
    /\ rpc' = "ret"
    /\ UNCHANGED <<app_names, app_deps, deployed, callsLeft, returned>>
    /\ UNCHANGED NotResolver

\* return order
ResolveReturn ==
    /\ \/ rpc = "ret"
       \/ rpc = "loop" /\ Len(order) >= Cardinality(app_names)
    /\ returned' = Append(returned, order)
    /\ rpc' = "idle"
    /\ UNCHANGED <<app_names, app_deps, deployed, order, remainder, passes, callsLeft>>
    /\ UNCHANGED NotResolver

ResolveNext == ResolveCall \/ ResolvePass \/ ResolveFallback \/ ResolveReturn

\* every component but the resolver at rest
ResolverAlone ==
    impl = "command" /\ ClusterIdle /\ PruneIdle /\ ApplyIdle /\ TunnelIdle /\ ComposeIdle /\ VaultCmdIdle /\ OpeningIdle /\ WaitIdle

InitResolve == ResolverInputs(1) /\ ResolverAlone

InitResolveTwice == ResolverInputs(2) /\ ResolverAlone

SpecResolve == InitResolve /\ [][ResolveNext]_vars

SpecResolveTwice == InitResolveTwice /\ [][ResolveNext]_vars

(***************************************************************************)
(* Properties of the resolver.                                             *)
(***************************************************************************)
\* names reachable from S along declared dependencies, in at most k steps
RECURSIVE DepClosure(_, _)
DepClosure(S, k) ==
    IF k = 0 THEN S
    ELSE DepClosure(S \cup UNION {app_deps[x] : x \in S \cap app_names}, k - 1)

DependsOn(n) == DepClosure(app_deps[n], Cardinality(Names))

HasCycle == \E n \in app_names : n \in DependsOn(n)

DepsClosed == \A n \in app_names : app_deps[n] \subseteq app_names

AfterItsDeps(result) ==
    \A i \in 1..Len(result) :
        \A dep \in app_deps[result[i]] \cap app_names :
            \E j \in 1..(i - 1) : result[j] = dep

IsPermutationOf(result, S) ==
    /\ Len(result) = Cardinality(S)
    /\ Range(result) = S

ChainABC ==
    /\ app_names = {"api", "db", "logthon"}
    /\ DOMAIN app_deps = app_names
    /\ app_deps["api"] = {}
    /\ app_deps["db"] = {"api"}
    /\ app_deps["logthon"] = {"db"}

\* C1: for an acyclic descriptor set whose dependencies all name services of
\* the set, the returned order places every service after all of its declared
\* dependencies; the chain A, B -> A, C -> B is returned as [A, B, C].
C1_TopologicalOrder ==
    \A k \in 1..Len(returned) :
        /\ (~HasCycle /\ DepsClosed) =>
              /\ AfterItsDeps(returned[k])
              /\ IsPermutationOf(returned[k], app_names)
        /\ ChainABC => returned[k] = <<"api", "db", "logthon">>

C1_Witness ==
    /\ ChainABC
    /\ returned = << <<"api", "db", "logthon">> >>

\* C2: for a descriptor set with a dependency cycle (a self-dependency
\* included) the resolver terminates - the loop runs at most once per service
\* and is never stuck before returning - and the returned list holds every
\* input name exactly once.
C2_CycleTerminatesWithPermutation ==
    /\ passes <= Cardinality(app_names)
    /\ (rpc # "idle") => ENABLED ResolveNext
    /\ \A k \in 1..Len(returned) :
          HasCycle => IsPermutationOf(returned[k], app_names)

C2_Witness ==
    /\ HasCycle
    /\ \E n \in app_names : n \in app_deps[n]
    /\ \E n \in app_names : app_deps[n] = {}
    /\ Len(returned) = 1
    /\ IsPermutationOf(returned[1], app_names)
    /\ Cardinality(app_names) = 3

\* C3: two calls on the same descriptor set return the identical list, on
\* every path including the cycle / missing-dependency fallback.
C3_Deterministic ==
    Len(returned) = 2 => returned[1] = returned[2]

\* C4: when a pass finds nothing ready while services remain, the remaining
\* services are appended in alphabetical order of their names.
C4_FallbackAlphabetical ==
    rpc = "ret" =>
        /\ IsSorted(remainder)
        /\ Range(remainder) = Remaining(app_names, deployed)

\* the dependencies are acyclic and one of them names no service of the set
MissingDependency == ~HasCycle /\ ~DepsClosed

\* services none of whose dependencies, direct or not, is missing
Resolvable == {n \in app_names : DependsOn(n) \subseteq app_names}

\* C23 as stated: for an acyclic descriptor set in which some service
\* declares a dependency on a name that is not in the set, the resolver
\* raises no error and returns an order in which no service appears before
\* any of its declared dependencies that are in the set.
C23_MissingDependencyKeepsOrder ==
    /\ (rpc # "idle") => ENABLED ResolveNext
    /\ \A k \in 1..Len(returned) :
          MissingDependency => AfterItsDeps(returned[k])

\* C23 as the code has it: for such a set the resolver raises no error and
\* returns every service exactly once; the services that do not depend,
\* directly or through others, on a missing name come first, each after all
\* of its dependencies, and the services that do come after them in the
\* order the fallback appends them.
C23_MissingDependencyFallsBack ==
    /\ (rpc # "idle") => ENABLED ResolveNext
    /\ \A k \in 1..Len(returned) :
          MissingDependency =>
              /\ IsPermutationOf(returned[k], app_names)
              /\ \A i \in 1..Len(returned[k]) :
                    (returned[k][i] \in Resolvable) =>
                        /\ \A dep \in app_deps[returned[k][i]] :
                              \E j \in 1..(i - 1) : returned[k][j] = dep
                        /\ \A j \in 1..Len(returned[k]) :
                              (returned[k][j] \notin Resolvable) => i < j

\* api waits for db and db for logthon, which is not in the set: nothing is
\* ever ready, and the fallback returned both, api first
C23_Witness ==
    /\ app_names = {"api", "db"}
    /\ MissingDependency
    /\ app_deps["api"] = {"db"}
    /\ app_deps["db"] = {"logthon"}
    /\ returned = << <<"api", "db">> >>

(***************************************************************************)
(* Cluster health check and setup.                                         *)
(*                                                                         *)
(* The environment holds the k3d cluster: whether `k3d cluster list` shows *)
(* it, whether its servers run, whether `kubectl cluster-info` reaches its *)
(* control plane, and gen, the number of times it has been created anew.   *)
(***************************************************************************)
ClusterStates ==
    {c \in [listed : BOOLEAN, running : BOOLEAN, reachable : BOOLEAN, gen : {0}] :
        /\ c.running => c.listed
        /\ c.reachable => c.running}

Deleted(c) == [NoCluster EXCEPT !.gen = c.gen]

Created(c) == [listed |-> TRUE, running |-> TRUE, reachable |-> TRUE, gen |-> c.gen + 1]

\* what `kubectl cluster-info` can answer (the manager passes timeout=10)
ConnectOutcomes(i, c) ==
    IF c.reachable THEN {"ok"}
    ELSE IF i = "manager" THEN {"fail", "timeout"} ELSE {"fail"}

\* whether the health check gets as far as the control-plane query
HealthQueries(i, seen, running) == seen /\ (i = "manager" => running)

ExistenceOnlyHealth(i, seen, running, connect) == seen

\* the value check_k3s_cluster_health / _check_k3s_cluster_health returns
HealthResult(i, seen, running, connect) ==
    IF ~seen THEN FALSE
    ELSE IF i = "manager" /\ ~running THEN FALSE
    ELSE connect = "ok"

\* whether the health check itself calls the corrupted-cluster cleanup
HealthCleans(i, queried, connect) == i = "command" /\ queried /\ connect = "fail"

\* the commands of cleanup_corrupted_k3s_cluster / _cleanup_corrupted_k3s_cluster
CleanupCommands(i) ==
    IF i = "manager"
    THEN <<"k3d cluster stop", "k3d cluster delete", "docker rm", "docker network rm">>
    ELSE <<"k3d cluster delete", "k3d cluster list">>

\* what `k3d cluster create edge-terrarium` can answer
CreateOutcomes(c) == IF c.listed THEN {"exists", "error"} ELSE {"ok", "error"}

\* where setup goes after the first create
AfterCreate(outcome) ==
    CASE outcome = "ok" -> "dashApply"
      [] outcome = "exists" -> "cleanup"
      [] OTHER -> "failed"

\* where setup goes after the create that follows the cleanup
AfterRecreate(outcome) == IF outcome = "ok" THEN "dashApply" ELSE "failed"

ClusterInputs ==
    /\ impl \in {"manager", "command"}
    /\ cluster \in ClusterStates
    /\ cluster0 = cluster
    /\ kpc = "idle"
    /\ setups = 0
    /\ hc = NoHealthCheck
    /\ cmdLog = <<>>
    /\ failedAt = "none"
    /\ setupResult = FALSE

\* between two deploys the cluster may stop or lose its control plane
ClusterDrift ==
    /\ kpc \in {"idle", "done"}
    /\ setups < MaxSetups
    /\ \E c \in ClusterStates :
          /\ cluster.listed /\ c.listed
          /\ [c EXCEPT !.gen = cluster.gen] # cluster
          /\ cluster' = [c EXCEPT !.gen = cluster.gen]
    /\ kpc' = "idle"
    /\ UNCHANGED <<cluster0, setups, hc, cmdLog, failedAt, setupResult>>
    /\ UNCHANGED NotCluster

\* entry of setup_k3s_cluster
StartSetup ==
    /\ kpc \in {"idle", "done"}
    /\ setups < MaxSetups
    /\ setups' = setups + 1
    /\ cluster0' = cluster
    /\ kpc' = "health"
    /\ hc' = NoHealthCheck
    /\ cmdLog' = <<>>
    /\ failedAt' = "none"
    /\ setupResult' = FALSE
    /\ UNCHANGED cluster
    /\ UNCHANGED NotCluster

\* cluster_exists = self.check_k3s_cluster_health(); return True when healthy
CheckClusterHealth ==
    /\ kpc = "health"
    /\ \E listOk \in BOOLEAN, connect \in ConnectOutcomes(impl, cluster), deleted \in BOOLEAN :
          LET seen == listOk /\ cluster.listed
              queried == HealthQueries(impl, seen, cluster.running)
              answer == HealthResult(impl, seen, cluster.running, connect)
              cleans == HealthCleans(impl, queried, connect)
          IN  /\ hc' = [done |-> TRUE,
                        listed |-> seen,
                        connect |-> IF queried THEN connect ELSE "none",
                        result |-> answer,
                        cleanup |-> cleans]
              /\ cmdLog' = cmdLog \o <<"k3d cluster list">>
                                  \o (IF queried THEN <<"kubectl cluster-info">> ELSE <<>>)
                                  \o (IF cleans THEN CleanupCommands(impl) ELSE <<>>)
              /\ cluster' = IF cleans /\ deleted THEN Deleted(cluster) ELSE cluster
              /\ kpc' = IF answer THEN "done" ELSE "create"
              /\ setupResult' = IF answer THEN TRUE ELSE setupResult
    /\ UNCHANGED <<cluster0, setups, failedAt>>
    /\ UNCHANGED NotCluster

\* run_command(create_cmd, check=True) and its except ShellError
CreateCluster ==
    /\ kpc = "create"
    /\ \E outcome \in CreateOutcomes(cluster) :
          /\ cmdLog' = Append(cmdLog, "k3d cluster create")
          /\ cluster' = IF outcome = "ok" THEN Created(cluster) ELSE cluster
          /\ IF AfterCreate(outcome) = "failed"
             THEN /\ kpc' = "done"
                  /\ setupResult' = FALSE
                  /\ failedAt' = "create"
             ELSE /\ kpc' = AfterCreate(outcome)
                  /\ UNCHANGED <<setupResult, failedAt>>
    /\ UNCHANGED <<cluster0, setups, hc>>
    /\ UNCHANGED NotCluster

\* self.cleanup_corrupted_k3s_cluster() after "already exists"
CleanupCorruptedCluster ==
    /\ kpc = "cleanup"
    /\ \E deleted \in BOOLEAN :
          cluster' = IF deleted THEN Deleted(cluster) ELSE cluster
    /\ cmdLog' = cmdLog \o CleanupCommands(impl)
    /\ kpc' = "recreate"
    /\ UNCHANGED <<cluster0, setups, hc, failedAt, setupResult>>
    /\ UNCHANGED NotCluster

\* "Try creating again": run_command(create_cmd, check=True)
RecreateCluster ==
    /\ kpc = "recreate"
    /\ \E outcome \in CreateOutcomes(cluster) :
          /\ cmdLog' = Append(cmdLog, "k3d cluster create")
          /\ cluster' = IF outcome = "ok" THEN Created(cluster) ELSE cluster
          /\ IF AfterRecreate(outcome) = "failed"
             THEN /\ kpc' = "done"
                  /\ setupResult' = FALSE
                  /\ failedAt' = "recreate"
             ELSE /\ kpc' = AfterRecreate(outcome)
                  /\ UNCHANGED <<setupResult, failedAt>>
    /\ UNCHANGED <<cluster0, setups, hc>>
    /\ UNCHANGED NotCluster

\* kubectl apply -f .../dashboard/.../recommended.yaml, check=True
InstallDashboard ==
    /\ kpc = "dashApply"
    /\ cmdLog' = Append(cmdLog, "kubectl apply dashboard")
    /\ \E ok \in BOOLEAN :
          IF ok
          THEN /\ kpc' = "dashWait"
               /\ UNCHANGED <<setupResult, failedAt>>
          ELSE /\ kpc' = "done"
               /\ setupResult' = FALSE
               /\ failedAt' = "dashApply"
    /\ UNCHANGED <<cluster, cluster0, setups, hc>>
    /\ UNCHANGED NotCluster

\* kubectl wait --for=condition=available deployment/kubernetes-dashboard
WaitDashboard ==
    /\ kpc = "dashWait"
    /\ cmdLog' = Append(cmdLog, "kubectl wait dashboard")
    /\ kpc' = "done"
    /\ \E ok \in BOOLEAN :
          IF ok
          THEN /\ setupResult' = TRUE
               /\ UNCHANGED failedAt
          ELSE /\ setupResult' = FALSE
               /\ failedAt' = "dashWait"
    /\ UNCHANGED <<cluster, cluster0, setups, hc>>
    /\ UNCHANGED NotCluster

ClusterNext ==
    \/ ClusterDrift
    \/ StartSetup
    \/ CheckClusterHealth
    \/ CreateCluster
    \/ CleanupCorruptedCluster
    \/ RecreateCluster
    \/ InstallDashboard
    \/ WaitDashboard

InitCluster ==
    ClusterInputs /\ ResolverIdle /\ PruneIdle /\ ApplyIdle /\ TunnelIdle /\ ComposeIdle /\ VaultCmdIdle /\ OpeningIdle /\ WaitIdle

SpecCluster == InitCluster /\ [][ClusterNext]_vars

(***************************************************************************)
(* Properties of the cluster health check and setup.                       *)
(***************************************************************************)
\* setup started on a cluster that is listed but whose control plane is unreachable
Corrupted0 == cluster0.listed /\ ~cluster0.reachable

DeletedThenCreated ==
    \E i, j \in 1..Len(cmdLog) :
        /\ i < j
        /\ cmdLog[i] = "k3d cluster delete"
        /\ cmdLog[j] = "k3d cluster create"

\* C5: the health check answers false when the cluster is not listed; answers
\* false and invokes the corrupted-cluster cleanup when the cluster is listed
\* but the control-plane query fails; answers true only when the cluster is
\* listed and the control-plane query succeeds.
C5_HealthCheckContract ==
    hc.done =>
        /\ ~hc.listed => hc.result = FALSE
        /\ (hc.listed /\ hc.connect \in {"fail", "timeout"}) =>
              (hc.result = FALSE /\ hc.cleanup)
        /\ hc.result = TRUE => (hc.listed /\ hc.connect = "ok")

\* C6 (as claimed, of setup_k3s_cluster): when setup finds the cluster listed but unreachable, it
\* succeeds only on a cluster created anew after the delete, and it fails only
\* if a creation of the cluster fails.
C6_FailsOnlyIfRecreationFails ==
    (impl = "manager" /\ kpc = "done" /\ Corrupted0) =>
        /\ setupResult = TRUE =>
              /\ cluster.gen = cluster0.gen + 1
              /\ cluster.reachable
              /\ DeletedThenCreated
        /\ setupResult = FALSE => failedAt \in {"create", "recreate"}

\* C6 (amended): when setup finds the cluster listed but unreachable, it
\* succeeds only on a cluster created anew after the delete of the old one;
\* it fails only if a creation of the cluster fails or the dashboard
\* installation (apply, or wait for availability) that follows it fails.
C6_RecreatedBeforeSuccess ==
    /\ (kpc = "done" /\ Corrupted0 /\ setupResult = TRUE) =>
          /\ cluster.gen = cluster0.gen + 1
          /\ cluster.reachable
          /\ DeletedThenCreated
    /\ (kpc = "done" /\ Corrupted0 /\ setupResult = FALSE) =>
          failedAt \in {"create", "recreate", "dashApply", "dashWait"}
    /\ (kpc = "done" /\ Corrupted0 /\ failedAt \in {"dashApply", "dashWait"}) =>
          cluster.gen = cluster0.gen + 1

C6_Witness ==
    /\ impl = "manager"
    /\ Corrupted0
    /\ cluster0.running
    /\ kpc = "done"
    /\ setupResult = TRUE
    /\ cluster.gen = cluster0.gen + 1
    /\ DeletedThenCreated

(***************************************************************************)
(* Stale-resource pruning.                                                 *)
(***************************************************************************)
ResourceTable == <<"nginx", "vault", "old-app", "logthon", "kubernetes", "kube-dns">>

ResourceNames == {ResourceTable[i] : i \in 1..MaxResources}

NoProtectedDeployments(i) == {}

\* `if deployment_name not in {"nginx", "vault"}`
ProtectedDeployments(i) == {"nginx", "vault"}

\* `if service_name not in {...}`: the manager's copy protects two more names
ProtectedServices(i) ==
    IF i = "manager" THEN {"nginx", "vault", "kubernetes", "kube-dns"} ELSE {"nginx", "vault"}

ToRemoveExisting(existing, current) == existing

\* existing_deployments - current_app_names, existing_services - current_app_names
ToRemove(existing, current) == existing \ current

\* set(result.stdout.strip().split()) of one kubectl get that returned names
Record(l, kind, existing) ==
    [kinds |-> l.kinds \cup {kind}, names |-> l.names \cup {<<kind, n>> : n \in existing}]

\* `result.returncode == 0 and result.stdout.strip()`
Listed(ok, existing) == ok /\ existing # {}

PruneInputs ==
    /\ impl \in {"manager", "command"}
    /\ current_app_names \in SUBSET ResourceNames
    /\ existing_deployments \in SUBSET ResourceNames
    /\ existing_services \in SUBSET ResourceNames
    /\ ppc = "idle"
    /\ to_remove = {}
    /\ deleteLog = {}
    /\ listing = NoListing

\* load the apps, kubectl get deployments, deployments_to_remove
PruneStart ==
    /\ ppc = "idle"
    /\ \E ok \in BOOLEAN :
          IF Listed(ok, existing_deployments)
          THEN /\ to_remove' = ToRemove(existing_deployments, current_app_names)
               /\ listing' = Record(listing, "deployment", existing_deployments)
               /\ ppc' = "deployments"
          ELSE /\ to_remove' = {}
               /\ ppc' = "done"
               /\ UNCHANGED listing
    /\ UNCHANGED <<current_app_names, existing_deployments, existing_services, deleteLog>>
    /\ UNCHANGED NotPrune

\* one iteration of `for deployment_name in deployments_to_remove`
PruneDeployment ==
    /\ ppc = "deployments"
    /\ \E name \in to_remove, gone \in BOOLEAN :
          /\ to_remove' = to_remove \ {name}
          /\ IF name \notin ProtectedDeployments(impl)
             THEN /\ deleteLog' = deleteLog \cup {<<"deployment", name>>}
                  /\ existing_deployments' =
                        IF gone THEN existing_deployments \ {name} ELSE existing_deployments
             ELSE UNCHANGED <<deleteLog, existing_deployments>>
    /\ UNCHANGED <<current_app_names, existing_services, ppc, listing>>
    /\ UNCHANGED NotPrune

\* kubectl get services, services_to_remove
PruneListServices ==
    /\ ppc = "deployments"
    /\ to_remove = {}
    /\ \E ok \in BOOLEAN :
          IF Listed(ok, existing_services)
          THEN /\ to_remove' = ToRemove(existing_services, current_app_names)
               /\ listing' = Record(listing, "service", existing_services)
               /\ ppc' = "services"
          ELSE /\ to_remove' = {}
               /\ ppc' = "done"
               /\ UNCHANGED listing
    /\ UNCHANGED <<current_app_names, existing_deployments, existing_services, deleteLog>>
    /\ UNCHANGED NotPrune

\* one iteration of `for service_name in services_to_remove`
PruneService ==
    /\ ppc = "services"
    /\ \E name \in to_remove, gone \in BOOLEAN :
          /\ to_remove' = to_remove \ {name}
          /\ IF name \notin ProtectedServices(impl)
             THEN /\ deleteLog' = deleteLog \cup {<<"service", name>>}
                  /\ existing_services' =
                        IF gone THEN existing_services \ {name} ELSE existing_services
             ELSE UNCHANGED <<deleteLog, existing_services>>
    /\ UNCHANGED <<current_app_names, existing_deployments, ppc, listing>>
    /\ UNCHANGED NotPrune

\* the end of the services loop
PruneReturn ==
    /\ ppc = "services"
    /\ to_remove = {}
    /\ ppc' = "done"
    /\ UNCHANGED <<current_app_names, existing_deployments, existing_services,
                   to_remove, deleteLog, listing>>
    /\ UNCHANGED NotPrune

PruneNext ==
    \/ PruneStart
    \/ PruneDeployment
    \/ PruneListServices
    \/ PruneService
    \/ PruneReturn

InitPrune ==
    PruneInputs /\ ResolverIdle /\ ClusterIdle /\ ApplyIdle /\ TunnelIdle /\ ComposeIdle /\ VaultCmdIdle /\ OpeningIdle /\ WaitIdle

SpecPrune == InitPrune /\ [][PruneNext]_vars

(***************************************************************************)
(* Properties of stale-resource pruning.                                   *)
(***************************************************************************)
CoreInfrastructure == {"nginx", "vault"}

\* C7: pruning never issues a delete for a deployment or service named nginx
\* or vault, whatever resources exist and whatever the current service set
\* is, also when those names are absent from the current service set.
C7_NeverDeletesCoreInfra ==
    \A cmd \in deleteLog : cmd[2] \notin CoreInfrastructure

C7_Witness ==
    /\ ppc = "done"
    /\ current_app_names \cap CoreInfrastructure = {}
    /\ CoreInfrastructure \subseteq existing_deployments
    /\ CoreInfrastructure \subseteq existing_services
    /\ <<"deployment", "old-app">> \in deleteLog
    /\ <<"service", "old-app">> \in deleteLog

\* the resources of one kind that exist, belong to no configured service and
\* carry no protected name
Orphans(kind) ==
    IF kind = "deployment"
    THEN {n \in existing_deployments : n \notin current_app_names /\ n \notin CoreInfrastructure}
    ELSE {n \in existing_services : n \notin current_app_names /\ n \notin ProtectedServices(impl)}

\* every delete names a resource a listing returned, of no configured service
DeletesOnlyListedOrphans ==
    \A cmd \in deleteLog : cmd \in listing.names /\ cmd[2] \notin current_app_names

AllAttempted(kind) == \A n \in Orphans(kind) : <<kind, n>> \in deleteLog

\* C27 as stated: a delete is issued only for a resource that exists and
\* belongs to no configured service, and once pruning has returned every
\* existing orphan without a protected name has received a delete attempt.
C27_EveryOrphanAttempted ==
    /\ DeletesOnlyListedOrphans
    /\ (ppc = "done") => (AllAttempted("deployment") /\ AllAttempted("service"))

\* C27: a delete is issued only for a resource that exists and belongs to no
\* configured service; once pruning has returned, every orphan of a kind
\* whose kubectl get returned names has received a delete attempt.
C27_ListedOrphansAttempted ==
    /\ DeletesOnlyListedOrphans
    /\ (ppc = "done") =>
          \A kind \in listing.kinds : AllAttempted(kind)

C27_Witness ==
    /\ ppc = "done"
    /\ listing.kinds = {"deployment", "service"}
    /\ "nginx" \in current_app_names
    /\ <<"deployment", "nginx">> \in listing.names
    /\ <<"deployment", "old-app">> \in deleteLog
    /\ <<"service", "old-app">> \in deleteLog
    /\ "old-app" \in existing_deployments

(***************************************************************************)
(* Manifest application: the part of deploy_to_k3s that hands the files    *)
(* of configs/k3s to `kubectl apply -f`.                                   *)
(***************************************************************************)
\* service names the manifests are generated for, besides nginx and vault
ManifestAppTable == <<"logthon", "service-sink", "file-storage", "custom-client">>

ManifestAppNames == {ManifestAppTable[i] : i \in 1..MaxManifestApps}

\* the files generate_k3s_manifests writes for one service
ManifestsOf(app, volumes) ==
    {app \o "-deployment.yaml", app \o "-service.yaml"}
        \cup (IF app \in volumes THEN {app \o "-pvc.yaml"} ELSE {})

\* the content of configs/k3s after generation
GeneratedManifests(apps, volumes) ==
    {"namespace.yaml", "nginx-configmap.yaml", "ingress.yaml", "kustomization.yaml"}
        \cup UNION {ManifestsOf(a, volumes) : a \in apps \cup {"nginx", "vault"}}

\* the list deploy_to_k3s applies before Vault is initialised, in list order
VaultFiles == <<"vault-deployment.yaml", "vault-service.yaml", "vault-pvc.yaml">>

ExcludeFiles == {"kustomization.yaml", "namespace.yaml"}

AllFiles == {f \in k3s_dir : f \notin Range(VaultFiles) /\ f \notin ExcludeFiles}

PvcFiles == {f \in AllFiles : Contains(f, "pvc")}

ConfigmapFiles == {f \in AllFiles : Contains(f, "configmap") \/ Contains(f, "secret")}

DeploymentFiles == {f \in AllFiles : Contains(f, "deployment")}

ServiceFiles == {f \in AllFiles : Contains(f, "service")}

OtherFiles ==
    {f \in AllFiles : f \notin PvcFiles \cup ConfigmapFiles \cup DeploymentFiles \cup ServiceFiles}

\* sorted(file_group)
RECURSIVE SortedFiles(_)
SortedFiles(S) ==
    IF S = {} THEN <<>>
    ELSE LET m == CHOOSE x \in S : \A y \in S \ {x} : StrLess(x, y)
         IN  <<m>> \o SortedFiles(S \ {m})

\* a plan that applies the deployments ahead of the storage claims
ApplyPlanDeploymentsFirst ==
    SortedFiles(DeploymentFiles) \o SortedFiles(PvcFiles) \o SortedFiles(ConfigmapFiles)
        \o SortedFiles(ServiceFiles) \o SortedFiles(OtherFiles)

\* the files the five for loops apply, in order
ApplyPlan ==
    SortedFiles(PvcFiles) \o SortedFiles(ConfigmapFiles) \o SortedFiles(DeploymentFiles)
        \o SortedFiles(ServiceFiles) \o SortedFiles(OtherFiles)

\* exit status of `kubectl apply -f file`: a missing file always fails
ApplyOutcomes(file) == IF file \in k3s_dir THEN {TRUE, FALSE} ELSE {FALSE}

ApplyInputs ==
    /\ impl = "manager"
    /\ manifest_apps \in SUBSET ManifestAppNames
    /\ volume_apps \in SUBSET (manifest_apps \cup {"vault"})
    /\ k3s_dir = GeneratedManifests(manifest_apps, volume_apps)
    /\ apc = "configmap"
    /\ apply_queue = <<>>
    /\ applied = <<>>
    /\ applyFailed = FALSE

\* kubectl apply -f configs/k3s/nginx-configmap.yaml
ApplyNginxConfigMap ==
    /\ apc = "configmap"
    /\ applied' = Append(applied, "nginx-configmap.yaml")
    /\ \E ok \in ApplyOutcomes("nginx-configmap.yaml") :
        IF ok
        THEN apc' = "vault" /\ apply_queue' = VaultFiles /\ applyFailed' = FALSE
        ELSE apc' = "done" /\ apply_queue' = <<>> /\ applyFailed' = TRUE
    /\ UNCHANGED <<manifest_apps, volume_apps, k3s_dir>>
    /\ UNCHANGED NotApply

\* one iteration of apply_k8s_manifests(vault_files)
ApplyVaultFile ==
    /\ apc = "vault"
    /\ apply_queue # <<>>
    /\ applied' = Append(applied, Head(apply_queue))
    /\ \E ok \in ApplyOutcomes(Head(apply_queue)) :
        IF ok
        THEN /\ apply_queue' = Tail(apply_queue)
             /\ apc' = IF Tail(apply_queue) = <<>> THEN "bootstrap" ELSE "vault"
             /\ applyFailed' = FALSE
        ELSE apc' = "done" /\ apply_queue' = <<>> /\ applyFailed' = TRUE
    /\ UNCHANGED <<manifest_apps, volume_apps, k3s_dir>>
    /\ UNCHANGED NotApply

\* wait for vault, forward its port, initialise it, store the database
\* secrets, prune; then list configs/k3s and group its files
VaultBootstrap ==
    /\ apc = "bootstrap"
    /\ \E ok \in BOOLEAN :
        IF ok
        THEN apc' = "groups" /\ apply_queue' = ApplyPlan /\ applyFailed' = FALSE
        ELSE apc' = "done" /\ apply_queue' = <<>> /\ applyFailed' = TRUE
    /\ UNCHANGED <<manifest_apps, volume_apps, k3s_dir, applied>>
    /\ UNCHANGED NotApply

\* one iteration of the inner for loop over sorted(file_group)
ApplyGroupFile ==
    /\ apc = "groups"
    /\ apply_queue # <<>>
    /\ applied' = Append(applied, Head(apply_queue))
    /\ \E ok \in ApplyOutcomes(Head(apply_queue)) :
        IF ok
        THEN apc' = "groups" /\ apply_queue' = Tail(apply_queue) /\ applyFailed' = FALSE
        ELSE apc' = "done" /\ apply_queue' = <<>> /\ applyFailed' = TRUE
    /\ UNCHANGED <<manifest_apps, volume_apps, k3s_dir>>
    /\ UNCHANGED NotApply

\* the five groups are applied; deploy_to_k3s goes on to the PVC check
ApplyFinish ==
    /\ apc = "groups"
    /\ apply_queue = <<>>
    /\ apc' = "done"
    /\ UNCHANGED <<manifest_apps, volume_apps, k3s_dir, apply_queue, applied, applyFailed>>
    /\ UNCHANGED NotApply

ApplyNext ==
    \/ ApplyNginxConfigMap
    \/ ApplyVaultFile
    \/ VaultBootstrap
    \/ ApplyGroupFile
    \/ ApplyFinish

InitApply ==
    ApplyInputs /\ ResolverIdle /\ ClusterIdle /\ PruneIdle /\ TunnelIdle /\ ComposeIdle /\ VaultCmdIdle /\ OpeningIdle /\ WaitIdle

SpecApply == InitApply /\ [][ApplyNext]_vars

\* the services whose manifests are in configs/k3s
ManifestServices == manifest_apps \cup {"nginx", "vault"}

\* C8: for every service that has both a PVC manifest and a Deployment
\* manifest, the secret store included, the PVC file is applied strictly
\* before the Deployment file.
C8_PvcBeforeDeployment ==
    \A a \in ManifestServices : \A j \in 1..Len(applied) :
        (applied[j] = a \o "-deployment.yaml" /\ (a \o "-pvc.yaml") \in k3s_dir)
            => \E i \in 1..(j - 1) : applied[i] = a \o "-pvc.yaml"

\* s ends with suffix
EndsWith(s, suffix) ==
    Len(s) >= Len(suffix) /\ SubSeq(s, Len(s) - Len(suffix) + 1, Len(s)) = suffix

\* the place of a manifest in the order storage claims, config/secret
\* objects, deployments, services, everything else, by the name the
\* generator gives the file
KindRank(f) ==
    IF EndsWith(f, "-pvc.yaml") THEN 1
    ELSE IF EndsWith(f, "-configmap.yaml") \/ EndsWith(f, "-secret.yaml") THEN 2
    ELSE IF EndsWith(f, "-deployment.yaml") THEN 3
    ELSE IF EndsWith(f, "-service.yaml") THEN 4
    ELSE 5

\* positions of `applied` that belong to the grouped apply: what follows the
\* gateway ConfigMap and the Vault files
GroupedPositions == (Len(VaultFiles) + 2)..Len(applied)

C30_EachFileAppliedOnce ==
    (apc = "done" /\ ~applyFailed) =>
        \A f \in AllFiles :
            Cardinality({j \in GroupedPositions : applied[j] = f}) = 1

(***************************************************************************)
(* Tunnel establishment: _setup_k3s_port_forwarding, which deploy runs     *)
(* once at the end of deploy_to_k3s and once more after verification, on   *)
(* the handle list deploy_to_k3s left the Vault tunnel in.                 *)
(***************************************************************************)
\* service names the descriptors of the tunnel runs are drawn from
TunnelAppTable == <<"logthon", "vault", "custom-client", "file-storage">>

TunnelAppNames == {TunnelAppTable[i] : i \in 1..MaxTunnelApps}

\* runtime.port_forward of a descriptor; 0 stands for an absent field
PortForwardValues == {0, 5001, 8200}

\* subprocess.Popen(["kubectl", "port-forward", ..., "svc/<svc>", "<local>:<remote>"])
Handle(pid, svc, local, remote) ==
    [pid |-> pid, svc |-> svc, local |-> local, remote |-> remote]

\* the tunnel deploy_to_k3s opens for the initialisation of Vault
VaultTunnel(pid) == Handle(pid, "vault", 8200, 8200)

\* the tunnel to the gateway
GatewayTunnel(pid) == Handle(pid, "nginx", 8443, 443)

\* the tunnel to one service: its declared local port to its container port
DirectTunnel(pid, app) == Handle(pid, app.name, app.port_forward, app.port)

\* lists of descriptors with distinct names, in any order
AppLists ==
    {l \in UNION {[1..n -> [name : TunnelAppNames, port : {8080},
                            port_forward : PortForwardValues]] : n \in 0..MaxTunnelApps} :
        \A i, j \in 1..Len(l) : i # j => l[i].name # l[j].name}

\* what the list holds when a run leaves the handles of earlier runs in it
KeepHandles(handles) == handles

\* port_forward_processes.clear()
ClearHandles(handles) == <<>>

\* pkill -f 'kubectl port-forward', check=False, errors ignored
PkillOutcomes(live) == {{}, live}

\* one entry of the log of tunnel commands
TunnelEvent(ev, svc) == [ev |-> ev, svc |-> svc]

\* how one probe of _verify_port_forwarding ends
ProbeOutcomes == {"ok", "non200", "connection_error", "timeout"}

\* the probes of _verify_port_forwarding in the order it makes them: the
\* gateway, the store, then every service that declares port_forward
RECURSIVE DirectProbes(_)
DirectProbes(apps) ==
    IF apps = <<>> THEN <<>>
    ELSE (IF Head(apps).port_forward # 0 THEN <<Head(apps).name>> ELSE <<>>)
            \o DirectProbes(Tail(apps))

ProbeTargets(apps) == <<"nginx-ingress", "vault-direct">> \o DirectProbes(apps)

\* a verifier whose probes let connection errors and timeouts through
VerifyPropagatesErrors(outcome) == outcome \in {"connection_error", "timeout"}

\* every probe sits in its own try/except Exception, inside an outer one
VerifyPropagates(outcome) == FALSE

\* deploy drops what setup_k3s_port_forwarding() and verify_port_forwarding()
\* return; only verify_k3s_deployment() decides between 0 and 1
DeployExit(setup_result, running) == IF running THEN 0 ELSE 1

TunnelInputs ==
    /\ impl = "manager"
    /\ tunnel_apps \in AppLists
    /\ port_forward_processes = <<>>
    /\ live_tunnels = {}
    /\ spawnedRun = <<>>
    /\ tpc = "idle"
    /\ tunnel_i = 0
    /\ tunnelRuns = 0
    /\ nextPid = 1
    /\ tunnelResult = FALSE
    /\ tunnelLog = <<>>
    /\ probe_i = 0
    /\ probe_outcomes = {}
    /\ pods_running = FALSE
    /\ tunnelRc = -1

\* deploy_to_k3s: Popen of the Vault tunnel for the initialisation, appended
\* to the list
SpawnVaultTunnel ==
    /\ tpc = "idle"
    /\ port_forward_processes' = Append(port_forward_processes, VaultTunnel(nextPid))
    /\ live_tunnels' = live_tunnels \cup {nextPid}
    /\ nextPid' = nextPid + 1
    /\ tunnelLog' = Append(tunnelLog, TunnelEvent("spawn", "vault"))
    /\ tpc' = "vaulted"
    /\ UNCHANGED <<tunnel_apps, spawnedRun, tunnel_i, tunnelRuns, tunnelResult,
                   probe_i, probe_outcomes, pods_running, tunnelRc>>
    /\ UNCHANGED NotTunnel

\* a run starts: kill by pattern, forget the handles, sleep
TunnelStart ==
    /\ tpc \in {"vaulted", "done"}
    /\ tunnelRuns < MaxTunnelRuns
    /\ tunnelRuns' = tunnelRuns + 1
    /\ live_tunnels' \in PkillOutcomes(live_tunnels)
    /\ port_forward_processes' = ClearHandles(port_forward_processes)
    /\ tunnelLog' = Append(tunnelLog, TunnelEvent("pkill", "-"))
    /\ spawnedRun' = <<>>
    /\ tpc' = "gateway"
    /\ tunnel_i' = 0
    /\ tunnelResult' = FALSE
    /\ probe_i' = 0
    /\ probe_outcomes' = {}
    /\ UNCHANGED <<tunnel_apps, nextPid, pods_running, tunnelRc>>
    /\ UNCHANGED NotTunnel

\* Popen of the gateway tunnel, appended to the list; then load_apps()
SpawnGateway ==
    /\ tpc = "gateway"
    /\ port_forward_processes' = Append(port_forward_processes, GatewayTunnel(nextPid))
    /\ spawnedRun' = Append(spawnedRun, GatewayTunnel(nextPid))
    /\ live_tunnels' = live_tunnels \cup {nextPid}
    /\ nextPid' = nextPid + 1
    /\ tunnelLog' = Append(tunnelLog, TunnelEvent("spawn", "nginx"))
    /\ tpc' = "direct"
    /\ tunnel_i' = 1
    /\ UNCHANGED <<tunnel_apps, tunnelRuns, tunnelResult, probe_i, probe_outcomes,
                   pods_running, tunnelRc>>
    /\ UNCHANGED NotTunnel

\* one iteration of `for app in apps`
SpawnDirect ==
    /\ tpc = "direct"
    /\ tunnel_i <= Len(tunnel_apps)
    /\ LET app == tunnel_apps[tunnel_i] IN
        IF app.port_forward # 0
        THEN /\ port_forward_processes' =
                    Append(port_forward_processes, DirectTunnel(nextPid, app))
             /\ spawnedRun' = Append(spawnedRun, DirectTunnel(nextPid, app))
             /\ live_tunnels' = live_tunnels \cup {nextPid}
             /\ nextPid' = nextPid + 1
             /\ tunnelLog' = Append(tunnelLog, TunnelEvent("spawn", app.name))
        ELSE UNCHANGED <<port_forward_processes, spawnedRun, live_tunnels, nextPid,
                         tunnelLog>>
    /\ tunnel_i' = tunnel_i + 1
    /\ UNCHANGED <<tunnel_apps, tpc, tunnelRuns, tunnelResult, probe_i, probe_outcomes,
                   pods_running, tunnelRc>>
    /\ UNCHANGED NotTunnel

\* sleep, then _verify_port_forwarding() starts
VerifyTunnels ==
    /\ tpc = "direct"
    /\ tunnel_i > Len(tunnel_apps)
    /\ tpc' = "probing"
    /\ probe_i' = 1
    /\ probe_outcomes' = {}
    /\ UNCHANGED <<tunnel_apps, port_forward_processes, live_tunnels, spawnedRun,
                   tunnel_i, tunnelRuns, nextPid, tunnelResult, tunnelLog, pods_running,
                   tunnelRc>>
    /\ UNCHANGED NotTunnel

\* one probe of _verify_port_forwarding; an exception that left it would end
\* _setup_k3s_port_forwarding with False, or deploy with 1
ProbeTunnel ==
    /\ tpc \in {"probing", "reprobing"}
    /\ probe_i <= Len(ProbeTargets(tunnel_apps))
    /\ \E outcome \in ProbeOutcomes :
        /\ probe_outcomes' = probe_outcomes \cup {outcome}
        /\ IF VerifyPropagates(outcome)
           THEN IF tpc = "probing"
                THEN tpc' = "done" /\ tunnelResult' = FALSE /\ UNCHANGED <<probe_i, tunnelRc>>
                ELSE tpc' = "returned" /\ tunnelRc' = 1 /\ UNCHANGED <<probe_i, tunnelResult>>
           ELSE probe_i' = probe_i + 1 /\ UNCHANGED <<tpc, tunnelResult, tunnelRc>>
    /\ UNCHANGED <<tunnel_apps, port_forward_processes, live_tunnels, spawnedRun,
                   tunnel_i, tunnelRuns, nextPid, tunnelLog, pods_running>>
    /\ UNCHANGED NotTunnel

\* _verify_port_forwarding() is back: return True
TunnelsEstablished ==
    /\ tpc = "probing"
    /\ probe_i > Len(ProbeTargets(tunnel_apps))
    /\ tunnelResult' = TRUE
    /\ tpc' = "done"
    /\ UNCHANGED <<tunnel_apps, port_forward_processes, live_tunnels, spawnedRun,
                   tunnel_i, tunnelRuns, nextPid, tunnelLog, probe_i, probe_outcomes,
                   pods_running, tunnelRc>>
    /\ UNCHANGED NotTunnel

\* deploy, after its own call of setup_k3s_port_forwarding(): sleep, then
\* verify_port_forwarding()
VerifyPortForwarding ==
    /\ tpc = "done"
    /\ tunnelRuns >= 2
    /\ tpc' = "reprobing"
    /\ probe_i' = 1
    /\ probe_outcomes' = {}
    /\ UNCHANGED <<tunnel_apps, port_forward_processes, live_tunnels, spawnedRun,
                   tunnel_i, tunnelRuns, nextPid, tunnelResult, tunnelLog, pods_running,
                   tunnelRc>>
    /\ UNCHANGED NotTunnel

\* the dashboard messages, then verify_k3s_deployment() and the return
DeployReturns ==
    /\ tpc = "reprobing"
    /\ probe_i > Len(ProbeTargets(tunnel_apps))
    /\ \E running \in BOOLEAN :
        /\ pods_running' = running
        /\ tunnelRc' = DeployExit(tunnelResult, running)
    /\ tpc' = "returned"
    /\ UNCHANGED <<tunnel_apps, port_forward_processes, live_tunnels, spawnedRun,
                   tunnel_i, tunnelRuns, nextPid, tunnelResult, tunnelLog, probe_i,
                   probe_outcomes>>
    /\ UNCHANGED NotTunnel

TunnelNext ==
    \/ SpawnVaultTunnel
    \/ TunnelStart
    \/ SpawnGateway
    \/ SpawnDirect
    \/ VerifyTunnels
    \/ ProbeTunnel
    \/ TunnelsEstablished
    \/ VerifyPortForwarding
    \/ DeployReturns

InitTunnel ==
    TunnelInputs /\ ResolverIdle /\ ClusterIdle /\ PruneIdle /\ ApplyIdle /\ ComposeIdle /\ VaultCmdIdle /\ OpeningIdle /\ WaitIdle

SpecTunnel == InitTunnel /\ [][TunnelNext]_vars

\* positions of the descriptors that declare port_forward
Declaring == {i \in 1..Len(tunnel_apps) : tunnel_apps[i].port_forward # 0}

IsGateway(h) == h.svc = "nginx" /\ h.local = 8443 /\ h.remote = 443

IsDirectOf(h, app) ==
    h.svc = app.name /\ h.local = app.port_forward /\ h.remote = app.port

C21_KillBeforeEverySpawn ==
    \A i \in 1..Len(tunnelLog) :
        (tunnelLog[i].ev = "spawn") =>
            \E j \in 1..(i - 1) : tunnelLog[j].ev = "pkill"

\* C22: at every point of a deploy, every tunnel process the manager has
\* spawned and that is still running is referenced by a handle in
\* port_forward_processes.
C22_LiveTunnelsAreTracked ==
    \A pid \in live_tunnels :
        \E j \in 1..Len(port_forward_processes) : port_forward_processes[j].pid = pid

\* C29: tunnel verification is advisory: for every combination of probe
\* outcomes (success, non-200 status, connection error, timeout), tunnel
\* establishment reports success and the exit code of the deploy is the one
\* it has when all probes succeed, which the pods report alone decides.
C29_ProbesAreAdvisory ==
    /\ (tpc \in {"done", "returned"}) => tunnelResult = TRUE
    /\ (tpc = "returned") => tunnelRc = (IF pods_running THEN 0 ELSE 1)

\* a deploy that returned 0 although the probes of its last verification
\* ended in a non-200 status, a connection error and a timeout
C29_Witness ==
    /\ tpc = "returned"
    /\ tunnelRc = 0
    /\ tunnelResult = TRUE
    /\ probe_outcomes = {"non200", "connection_error", "timeout"}

(***************************************************************************)
(* Compose deploy: DockerDeploymentManager.deploy and the helpers it       *)
(* calls.  Every external command and request is answered by the           *)
(* environment; a step is logged with what the helper made of the answer.  *)
(***************************************************************************)
\* service names the descriptors of a compose deploy are drawn from
ComposeAppTable == <<"vault", "nginx", "logthon", "custom-client">>

\* polls of `docker-compose ps vault` before start_docker_services gives up
max_attempts == 30

\* seconds of time.sleep before each poll
poll_sleep == 2

\* a start step that fails when the store never reported ready
StartRequiresReady(ready) == ready

\* what start_docker_services returns after the loop: when the store is not
\* ready it prints a warning and returns True all the same
StartReturns(ready) == TRUE

\* a deploy that takes the compose project down when a step has failed
RollbackDown(name) == <<[step |-> "down", ok |-> TRUE]>>

\* what deploy runs between a failed step and `return 1`: nothing; the
\* except clause of deploy only logs the error
Rollback(name) == <<>>

\* a step ran: it is logged; deploy goes on to `next` or returns 1
Step(name, ok, next) ==
    /\ stepLog' = Append(stepLog, [step |-> name, ok |-> ok])
                        \o (IF ok THEN <<>> ELSE Rollback(name))
    /\ cpc' = IF ok THEN next ELSE "done"
    /\ exitCode' = IF ok THEN exitCode ELSE 1

\* cleanup_k3s: `k3d cluster stop` / `delete` with check=False.  A non-zero
\* exit is not looked at; a missing k3d makes subprocess raise
\* FileNotFoundError, which `except ShellError` does not catch.
CleanupOutcomes == {"ok", "nonzero", "missing"}

CleanupRaises(outcome) == outcome = "missing"

\* _init_vault: 1 when Vault is not accessible or anything raises, else 0
InitVaultReturns(accessible, raised) == IF accessible /\ ~raised THEN 0 ELSE 1

\* the State column of `docker-compose ps`, one value per service
PsStates == {"Up", "Up (healthy)", "Exit 1"}

\* `"Up" in result.stdout`: the output holds the word somewhere
VerifyPasses(report) == \E svc \in DOMAIN report : Contains(report[svc], "Up")

ComposeInputs ==
    /\ impl = "command"
    /\ compose_apps \in {SubSeq(ComposeAppTable, 1, n) : n \in 0..MaxComposeApps}
    /\ build_context \in SUBSET Range(compose_apps)
    /\ buildLog = <<>>
    /\ ps_report = <<>>
    /\ cpc = "deps"
    /\ stepLog = <<>>
    /\ build_i = 0
    /\ attempt = 0
    /\ waited = 0
    /\ vault_ready = FALSE
    /\ init_rc = -1
    /\ exitCode = -1

\* check_dependencies_func(['docker', 'docker_compose', 'curl'])
CheckDependencies ==
    /\ cpc = "deps"
    /\ \E ok \in BOOLEAN : Step("deps", ok, "prereq")
    /\ UNCHANGED <<compose_apps, build_context, buildLog, ps_report, build_i, attempt, waited, vault_ready, init_rc>>
    /\ UNCHANGED NotCompose

\* check_docker_prerequisites()
CheckDockerPrerequisites ==
    /\ cpc = "prereq"
    /\ \E ok \in BOOLEAN : Step("prereq", ok, "certs")
    /\ UNCHANGED <<compose_apps, build_context, buildLog, ps_report, build_i, attempt, waited, vault_ready, init_rc>>
    /\ UNCHANGED NotCompose

\* generate_certificates()
GenerateCertificates ==
    /\ cpc = "certs"
    /\ \E ok \in BOOLEAN : Step("certs", ok, "cleanup")
    /\ UNCHANGED <<compose_apps, build_context, buildLog, ps_report, build_i, attempt, waited, vault_ready, init_rc>>
    /\ UNCHANGED NotCompose

\* cleanup_k3s_func()
CleanupK3s ==
    /\ cpc = "cleanup"
    /\ \E outcome \in CleanupOutcomes : Step("cleanup", ~CleanupRaises(outcome), "config")
    /\ UNCHANGED <<compose_apps, build_context, buildLog, ps_report, build_i, attempt, waited, vault_ready, init_rc>>
    /\ UNCHANGED NotCompose

\* generate_config("Docker Compose"), then load_apps()
GenerateConfig ==
    /\ cpc = "config"
    /\ \E ok \in BOOLEAN :
        Step("config", ok, IF compose_apps = <<>> THEN "startVault" ELSE "build")
    /\ build_i' = 1
    /\ UNCHANGED <<compose_apps, build_context, buildLog, ps_report, attempt, waited, vault_ready, init_rc>>
    /\ UNCHANGED NotCompose

\* `"-t", f"{app.docker.image_name}:{app.docker.tag}"` with the defaults
\* edge-terrarium-<name> and latest
ImageTag(app) == "edge-terrarium-" \o app \o ":latest"

\* one iteration of the for loop of build_app_images: docker build, check=True,
\* for every app of the list; docker.build_context is not looked at
BuildImage ==
    /\ cpc = "build"
    /\ build_i <= Len(compose_apps)
    /\ buildLog' = Append(buildLog, [app |-> compose_apps[build_i],
                                     tag |-> ImageTag(compose_apps[build_i])])
    /\ \E ok \in BOOLEAN :
        Step("build", ok, IF build_i = Len(compose_apps) THEN "startVault" ELSE "build")
    /\ build_i' = build_i + 1
    /\ UNCHANGED <<compose_apps, build_context, ps_report, attempt, waited, vault_ready, init_rc>>
    /\ UNCHANGED NotCompose

\* start_docker_services: docker-compose up -d vault, check=True
StartVault ==
    /\ cpc = "startVault"
    /\ \E ok \in BOOLEAN : Step("startVault", ok, "pollVault")
    /\ attempt' = 0
    /\ waited' = 0
    /\ vault_ready' = FALSE
    /\ UNCHANGED <<compose_apps, build_context, buildLog, ps_report, build_i, init_rc>>
    /\ UNCHANGED NotCompose

\* one iteration of the while loop of start_docker_services: sleep, then
\* `docker-compose ps vault`; when the loop ends the function returns
PollVault ==
    /\ cpc = "pollVault"
    /\ attempt < max_attempts
    /\ ~vault_ready
    /\ attempt' = attempt + 1
    /\ waited' = waited + poll_sleep
    /\ \E up \in BOOLEAN :
        /\ vault_ready' = up
        /\ IF up \/ attempt' = max_attempts
           THEN IF StartReturns(up)
                THEN cpc' = "initVault" /\ UNCHANGED exitCode
                ELSE cpc' = "done" /\ exitCode' = 1
           ELSE cpc' = "pollVault" /\ UNCHANGED exitCode
    /\ UNCHANGED <<compose_apps, build_context, buildLog, ps_report, stepLog, build_i, init_rc>>
    /\ UNCHANGED NotCompose

\* vault_cmd._init_vault(): the value it returns is dropped
InitVault ==
    /\ cpc = "initVault"
    /\ \E accessible, raised \in BOOLEAN :
        /\ init_rc' = InitVaultReturns(accessible, raised)
        /\ stepLog' = Append(stepLog, [step |-> "initVault", ok |-> init_rc' = 0])
    /\ cpc' = "dbSecrets"
    /\ UNCHANGED <<compose_apps, build_context, buildLog, ps_report, build_i, attempt, waited, vault_ready, exitCode>>
    /\ UNCHANGED NotCompose

\* vault_cmd.process_database_secrets(apps): an exception ends deploy
ProcessDatabaseSecrets ==
    /\ cpc = "dbSecrets"
    /\ \E ok \in BOOLEAN : Step("dbSecrets", ok, "upAll")
    /\ UNCHANGED <<compose_apps, build_context, buildLog, ps_report, build_i, attempt, waited, vault_ready, init_rc>>
    /\ UNCHANGED NotCompose

\* docker-compose up -d, check=True
StartAllServices ==
    /\ cpc = "upAll"
    /\ \E ok \in BOOLEAN : Step("upAll", ok, "verify")
    /\ UNCHANGED <<compose_apps, build_context, buildLog, ps_report, build_i, attempt, waited, vault_ready, init_rc>>
    /\ UNCHANGED NotCompose

\* verify_docker_deployment(): `docker-compose ps` with check=True, then the
\* test `"Up" not in result.stdout`; then return 0
VerifyDockerDeployment ==
    /\ cpc = "verify"
    /\ \E ps_ok \in BOOLEAN, report \in [Range(compose_apps) -> PsStates] :
        LET ok == ps_ok /\ VerifyPasses(report) IN
            /\ ps_report' = IF ps_ok THEN report ELSE ps_report
            /\ stepLog' = Append(stepLog, [step |-> "verify", ok |-> ok])
            /\ exitCode' = IF ok THEN 0 ELSE 1
    /\ cpc' = "done"
    /\ UNCHANGED <<compose_apps, build_context, buildLog, build_i, attempt, waited, vault_ready, init_rc>>
    /\ UNCHANGED NotCompose

ComposeNext ==
    \/ CheckDependencies
    \/ CheckDockerPrerequisites
    \/ GenerateCertificates
    \/ CleanupK3s
    \/ GenerateConfig
    \/ BuildImage
    \/ StartVault
    \/ PollVault
    \/ InitVault
    \/ ProcessDatabaseSecrets
    \/ StartAllServices
    \/ VerifyDockerDeployment

InitCompose ==
    ComposeInputs /\ ResolverIdle /\ ClusterIdle /\ PruneIdle /\ ApplyIdle /\ TunnelIdle /\ VaultCmdIdle /\ OpeningIdle /\ WaitIdle

SpecCompose == InitCompose /\ [][ComposeNext]_vars

\* the order in which the steps of a compose deploy are to run
ComposeStepOrder ==
    <<"prereq", "cleanup", "config", "build", "startVault", "initVault", "upAll", "verify">>

StepRank(name) == CHOOSE i \in 1..Len(ComposeStepOrder) : ComposeStepOrder[i] = name

\* C10: the steps run in the order prerequisite check, other-backend
\* cleanup, config generation, image build, secret-store start, secret
\* initialization, start of all services, verification; a failing step
\* (secret initialization included) is the last step that runs and deploy
\* returns 1; deploy returns 0 only when every step succeeded.
C10_FailFastInOrder ==
    /\ \A i, j \in 1..Len(stepLog) :
        (i < j /\ stepLog[i].step \in Range(ComposeStepOrder)
               /\ stepLog[j].step \in Range(ComposeStepOrder))
            => StepRank(stepLog[i].step) <= StepRank(stepLog[j].step)
    /\ \A i \in 1..Len(stepLog) :
        ~stepLog[i].ok => (i = Len(stepLog) /\ cpc = "done" /\ exitCode = 1)
    /\ (cpc = "done" /\ exitCode = 0) => \A i \in 1..Len(stepLog) : stepLog[i].ok

\* the steps logged before position i
LoggedBefore(i, name) == \E j \in 1..(i - 1) : stepLog[j].step = name /\ stepLog[j].ok

\* C15: the command that starts all services is issued only after the
\* secret-store service has been started, its readiness polling has
\* finished, and secret initialization has written the configured secret
\* records into the store.
C15_SecretsExistAtBringUp ==
    \A i \in 1..Len(stepLog) :
        (stepLog[i].step = "upAll") =>
            /\ LoggedBefore(i, "startVault")
            /\ attempt > 0
            /\ LoggedBefore(i, "initVault")
            /\ init_rc = 0

\* C26: the warm-up of the secret store makes at most 30 status polls, each
\* after a sleep of 2 seconds, stops at the first poll that reports the store
\* ready, and in both outcomes (ready, or 30 polls without success) the start
\* step reports success and the deploy goes on to the secret initialization.
C26_WarmUpBoundedAndNonFatal ==
    /\ attempt <= 30
    /\ waited = 2 * attempt
    /\ vault_ready => cpc # "pollVault"
    /\ (cpc = "pollVault") => attempt < 30
    /\ (attempt > 0 /\ cpc # "pollVault") => (vault_ready \/ attempt = 30)
    /\ (cpc = "initVault") =>
          /\ exitCode = -1
          /\ stepLog[Len(stepLog)] = [step |-> "startVault", ok |-> TRUE]
    /\ \A i \in 1..(Len(stepLog) - 1) :
          (stepLog[i].step = "startVault") => stepLog[i + 1].step = "initVault"
    /\ ~(attempt > 0 /\ cpc = "done" /\ stepLog[Len(stepLog)].step = "startVault")

\* thirty polls without a ready report, and the deploy went on to the
\* secret initialization
C26_Witness ==
    /\ attempt = 30
    /\ waited = 60
    /\ ~vault_ready
    /\ cpc = "dbSecrets"
    /\ stepLog[Len(stepLog)].step = "initVault"

\* the services the builder has been invoked for
Built == {buildLog[i].app : i \in 1..Len(buildLog)}

BuildPhaseOver == cpc \notin {"idle", "deps", "prereq", "certs", "cleanup", "config", "build"}

\* C28: the builder is invoked only for services with a build source, with
\* the tag <image_name>:<tag>; once the build phase is over it has been
\* invoked for every service with a build source, and a service without one
\* has neither been built nor made the deploy fail.
C28_BuildsExactlySourcedServices ==
    /\ \A i \in 1..Len(buildLog) :
          /\ buildLog[i].app \in build_context
          /\ buildLog[i].tag = "edge-terrarium-" \o buildLog[i].app \o ":latest"
    /\ BuildPhaseOver /\ cpc # "done" => Built = build_context

\* C19: compose verification succeeds only if every service of the project
\* reports a running state; if at least one service is not running,
\* verification fails and deploy returns 1.
C19_VerificationWantsAllRunning ==
    (cpc = "done" /\ stepLog # <<>> /\ stepLog[Len(stepLog)].step = "verify") =>
        /\ stepLog[Len(stepLog)].ok =>
                \A svc \in DOMAIN ps_report : Contains(ps_report[svc], "Up")
        /\ (\E svc \in DOMAIN ps_report : ~Contains(ps_report[svc], "Up")) => exitCode = 1

(***************************************************************************)
(* Secret initialization: VaultCommand._init_vault and the requests it     *)
(* sends to the store at http://localhost:8200.  The store answers; a      *)
(* request may also raise (connection refused, timeout).                   *)
(***************************************************************************)
\* the paths of the secrets file
SecretPathTable == <<"custom-client/config", "custom-client/external-apis", "terrarium/tls">>

\* what the store answers to POST /v1/sys/mounts/secret
EnableResponses(mounted) == (IF mounted THEN {400} ELSE {204}) \cup {500}

\* what _enable_kv_secrets_engine prints for a response
EnableReport(status) == IF status = 204 THEN "success" ELSE "warning"

\* where _init_vault would go after the response if only 204 were accepted
AfterEnableStrict(status) == IF status = 204 THEN "store" ELSE "failed"

\* where _init_vault goes after the enable-mount response
AfterEnable(status) == "store"

\* what the store answers to POST /v1/secret/data/<path>
WriteResponses == {200, 403}

VaultCmdInputs ==
    /\ impl = "command"
    /\ secret_paths \in {SubSeq(SecretPathTable, 1, n) : n \in 1..MaxSecretPaths}
    /\ kv_mounted \in BOOLEAN
    /\ kv_store \in {{}, {SecretPathTable[1]}}
    /\ vpc = "health"
    /\ write_queue = <<>>
    /\ enable_status = 0
    /\ enable_report = "none"
    /\ writes = <<>>
    /\ raisedAt = "none"
    /\ vault_rc = -1

\* _check_vault_accessible: GET /v1/sys/health answered 200, else return 1
CheckVaultAccessible ==
    /\ vpc = "health"
    /\ \E accessible \in BOOLEAN :
        /\ vpc' = IF accessible THEN "enable" ELSE "done"
        /\ vault_rc' = IF accessible THEN vault_rc ELSE 1
    /\ UNCHANGED <<secret_paths, kv_mounted, kv_store, write_queue, enable_status,
                   enable_report, writes, raisedAt>>
    /\ UNCHANGED NotVaultCmd

\* _enable_kv_secrets_engine: POST /v1/sys/mounts/secret; then
\* _load_secrets_from_file()
EnableKvSecretsEngine ==
    /\ vpc = "enable"
    /\ \/ \E status \in EnableResponses(kv_mounted) :
            /\ enable_status' = status
            /\ enable_report' = EnableReport(status)
            /\ kv_mounted' = (kv_mounted \/ status = 204)
            /\ vpc' = IF AfterEnable(status) = "store" THEN "store" ELSE "done"
            /\ vault_rc' = IF AfterEnable(status) = "store" THEN vault_rc ELSE 1
            /\ write_queue' = IF AfterEnable(status) = "store" THEN secret_paths ELSE <<>>
            /\ UNCHANGED raisedAt
       \/ /\ raisedAt' = "enable"
          /\ vpc' = "done"
          /\ vault_rc' = 1
          /\ UNCHANGED <<enable_status, enable_report, kv_mounted, write_queue>>
    /\ UNCHANGED <<secret_paths, kv_store, writes>>
    /\ UNCHANGED NotVaultCmd

\* one iteration of the for loop of _store_secrets: a response other than
\* 200 is printed and the loop goes on
StoreSecret ==
    /\ vpc = "store"
    /\ write_queue # <<>>
    /\ writes' = Append(writes, Head(write_queue))
    /\ \/ \E status \in WriteResponses :
            /\ kv_store' = IF status = 200 /\ kv_mounted
                           THEN kv_store \cup {Head(write_queue)} ELSE kv_store
            /\ write_queue' = Tail(write_queue)
            /\ vpc' = IF Tail(write_queue) = <<>> THEN "tls" ELSE "store"
            /\ UNCHANGED <<raisedAt, vault_rc>>
       \/ /\ raisedAt' = "store"
          /\ vpc' = "done"
          /\ vault_rc' = 1
          /\ write_queue' = <<>>
          /\ UNCHANGED kv_store
    /\ UNCHANGED <<secret_paths, kv_mounted, enable_status, enable_report>>
    /\ UNCHANGED NotVaultCmd

\* _store_tls_certificates: whatever happens is printed; then return 0
StoreTlsCertificates ==
    /\ vpc = "tls"
    /\ \E stored \in BOOLEAN :
        kv_store' = IF stored /\ kv_mounted THEN kv_store \cup {"terrarium/tls"} ELSE kv_store
    /\ vpc' = "done"
    /\ vault_rc' = 0
    /\ UNCHANGED <<secret_paths, kv_mounted, write_queue, enable_status, enable_report,
                   writes, raisedAt>>
    /\ UNCHANGED NotVaultCmd

VaultNext ==
    \/ CheckVaultAccessible
    \/ EnableKvSecretsEngine
    \/ StoreSecret
    \/ StoreTlsCertificates

InitVaultCmd ==
    VaultCmdInputs /\ ResolverIdle /\ ClusterIdle /\ PruneIdle /\ ApplyIdle /\ TunnelIdle /\ ComposeIdle /\ OpeningIdle /\ WaitIdle

SpecVault == InitVaultCmd /\ [][VaultNext]_vars

\* C11: an enable-mount response of 204 is reported as success and one of
\* 400 only as a warning; in both cases _init_vault goes on to write the
\* secret records and returns 0.
C11_EnableMountThenReturnsZero ==
    (enable_status \in {204, 400}) =>
        /\ enable_report = (IF enable_status = 204 THEN "success" ELSE "warning")
        /\ vpc \in {"store", "tls", "done"}
        /\ (vpc = "done") => (writes = secret_paths /\ vault_rc = 0)

\* C11 as amended: an enable-mount response of 204 is reported as success
\* and one of 400 only as a warning; in both cases _init_vault goes on to
\* write the secret records, and it returns 0 unless a write request raises.
C11_EnableMountNonFatal ==
    (enable_status \in {204, 400}) =>
        /\ enable_report = (IF enable_status = 204 THEN "success" ELSE "warning")
        /\ vpc \in {"store", "tls", "done"}
        /\ (vpc \in {"tls", "done"} /\ raisedAt = "none") => writes = secret_paths
        /\ (vpc = "done") => (vault_rc = 0 <=> raisedAt = "none")

\* the mount was already enabled, the response was 400, both records were
\* posted and _init_vault returned 0
C11_Witness ==
    /\ vpc = "done"
    /\ enable_status = 400
    /\ enable_report = "warning"
    /\ Len(secret_paths) = 2
    /\ writes = secret_paths
    /\ vault_rc = 0

(***************************************************************************)
(* The opening steps of deploy, in DockerDeploymentManager.deploy and in   *)
(* K3sDeploymentManager.deploy: dependency check, prerequisite check,      *)
(* certificate generation, cleanup of the other backend.  What follows     *)
(* the cleanup is one step here.                                           *)
(***************************************************************************)
\* the commands of required_deps that deploy names
Tools == {"docker", "docker-compose", "k3d", "kubectl", "curl"}

\* required_deps[dep_name]['command'] for the list each deploy passes
RequiredCommands(env) ==
    IF env = "docker" THEN {"docker", "docker-compose", "curl"}
    ELSE {"docker", "k3d", "kubectl", "curl"}

\* a dependency check that finds nothing missing
MissingNone(required, present) == {}

\* check_all_dependencies: the required commands `which` does not find
MissingDeps(required, present) == {c \in required : c \notin present}

\* the commands the prerequisite check wants on the path
PrerequisiteCommands(env) ==
    IF env = "docker" THEN {"docker", "docker-compose"} ELSE {"k3d", "kubectl"}

\* the command-line tool the cleanup of the other backend runs
CleanupTool(env) == IF env = "docker" THEN "k3d" ELSE "docker-compose"

\* the commands the cleanup of the other backend issues, check=False
OtherBackendCleanup(env) ==
    IF env = "docker"
    THEN <<"k3d cluster stop edge-terrarium", "k3d cluster delete edge-terrarium">>
    ELSE <<"docker-compose down -v">>

\* run_command raises ShellError for a failed or timed-out command only; a
\* command that is not on the path makes subprocess.run raise
\* FileNotFoundError, which `except ShellError` lets through
CleanupPropagates(tool, present) == tool \notin present

\* deploy returns 1 at `step`
OpeningFails(step) ==
    /\ opc' = "done"
    /\ openFailedAt' = step
    /\ openRc' = 1

OpeningInputs ==
    /\ impl = "manager"
    /\ environment \in {"docker", "k3s"}
    /\ installed \in SUBSET Tools
    /\ missing_deps = {}
    /\ opc = "deps"
    /\ infraLog = <<>>
    /\ openFailedAt = "none"
    /\ openRc = -1

\* check_dependencies_func([...])
CheckAllDependencies ==
    /\ opc = "deps"
    /\ missing_deps' = MissingDeps(RequiredCommands(environment), installed)
    /\ IF missing_deps' # {}
       THEN OpeningFails("deps")
       ELSE opc' = "prereq" /\ UNCHANGED <<openFailedAt, openRc>>
    /\ UNCHANGED <<environment, installed, infraLog>>
    /\ UNCHANGED NotOpening

\* check_docker_prerequisites() / check_k3s_prerequisites()
CheckPrerequisites ==
    /\ opc = "prereq"
    /\ \E daemon_running \in BOOLEAN :
        IF /\ PrerequisiteCommands(environment) \subseteq installed
           /\ (environment = "docker" => daemon_running)
        THEN opc' = "certs" /\ UNCHANGED <<openFailedAt, openRc>>
        ELSE OpeningFails("prereq")
    /\ UNCHANGED <<environment, installed, missing_deps, infraLog>>
    /\ UNCHANGED NotOpening

\* generate_certificates()
GenerateTlsCertificates ==
    /\ opc = "certs"
    /\ infraLog' = Append(infraLog, "cert generate edge-terrarium")
    /\ \E ok \in BOOLEAN :
        IF ok THEN opc' = "cleanup" /\ UNCHANGED <<openFailedAt, openRc>>
        ELSE OpeningFails("certs")
    /\ UNCHANGED <<environment, installed, missing_deps>>
    /\ UNCHANGED NotOpening

\* cleanup_k3s_func() / cleanup_docker_func(): exit codes are not looked at
CleanupOtherBackend ==
    /\ opc = "cleanup"
    /\ IF CleanupPropagates(CleanupTool(environment), installed)
       THEN OpeningFails("cleanup") /\ UNCHANGED infraLog
       ELSE /\ infraLog' = infraLog \o OtherBackendCleanup(environment)
            /\ opc' = "rest"
            /\ UNCHANGED <<openFailedAt, openRc>>
    /\ UNCHANGED <<environment, installed, missing_deps>>
    /\ UNCHANGED NotOpening

\* everything deploy does after the cleanup
RestOfDeploy ==
    /\ opc = "rest"
    /\ infraLog' = Append(infraLog, IF environment = "docker" THEN "docker build"
                                    ELSE "k3d cluster create edge-terrarium")
    /\ \E ok \in BOOLEAN :
        IF ok THEN opc' = "done" /\ openRc' = 0 /\ UNCHANGED openFailedAt
        ELSE OpeningFails("rest")
    /\ UNCHANGED <<environment, installed, missing_deps>>
    /\ UNCHANGED NotOpening

OpeningNext ==
    \/ CheckAllDependencies
    \/ CheckPrerequisites
    \/ GenerateTlsCertificates
    \/ CleanupOtherBackend
    \/ RestOfDeploy

InitOpening ==
    OpeningInputs /\ ResolverIdle /\ ClusterIdle /\ PruneIdle /\ ApplyIdle /\ TunnelIdle /\ ComposeIdle /\ VaultCmdIdle /\ WaitIdle

SpecOpening == InitOpening /\ [][OpeningNext]_vars

\* a command deploy requires is not on the path
ToolMissing == RequiredCommands(environment) \ installed # {}

\* C12: if a required external tool is missing, deploy (either backend)
\* returns 1 without having issued any command that changes infrastructure
\* state: no certificate generation, no cleanup of the other backend, no
\* build, no compose or cluster command.
C12_MissingToolNoSideEffects ==
    ToolMissing =>
        /\ infraLog = <<>>
        /\ opc \in {"deps", "done"}
        /\ (opc = "done") => (openRc = 1 /\ openFailedAt = "deps")

\* a cluster deploy on a host without kubectl has returned
C12_Witness ==
    /\ opc = "done"
    /\ environment = "k3s"
    /\ installed = Tools \ {"kubectl"}
    /\ missing_deps = {"kubectl"}
    /\ openRc = 1

\* C16: a failure of any cleanup action, the absence of the tool that
\* manages the target included, never makes deploy return non-zero and
\* never prevents the steps after the cleanup from running.
C16_CleanupNeverFailsDeploy ==
    /\ openFailedAt # "cleanup"
    /\ (opc = "done" /\ missing_deps = {} /\ openFailedAt \notin {"prereq", "certs"}) =>
            \E i \in 1..Len(infraLog) :
                infraLog[i] \in {"docker build", "k3d cluster create edge-terrarium"}

(***************************************************************************)
(* Readiness wait: the loop of deploy_to_k3s that waits for each           *)
(* deployment in dependency order and runs the health verifier for the     *)
(* services others depend on, up to the return of deploy.                  *)
(***************************************************************************)
\* the names the descriptors of the readiness wait are drawn from
WaitNames == {NameTable[i] : i \in 1..MaxWaitApps}

\* every list _calculate_deployment_order can return: passes of sorted ready
\* names, then, when a pass finds none, the rest in set-iteration order
RECURSIVE OrdersFrom(_, _, _, _)
OrdersFrom(names, dep_map, done, ord) ==
    IF Len(ord) >= Cardinality(names) THEN {ord}
    ELSE LET ready == ReadyToDeploy(names, dep_map, done)
         IN  IF ready = {}
             THEN {ord \o rest : rest \in Perms(Remaining(names, done))}
             ELSE OrdersFrom(names, dep_map, done \cup ready, ord \o SortedFiles(ready))

\* a wait loop that takes the descriptors in the order they were loaded
LoadOrders(names, dep_map) == Perms(names)

DeploymentOrders(names, dep_map) == OrdersFrom(names, dep_map, {}, <<>>)

\* a service has dependents when it has dependencies of its own
HasDependencies(service_name, dep_map) == dep_map[service_name] # {}

\* _has_dependents: some descriptor lists service_name among its dependencies
HasDependents(service_name, dep_map) ==
    \E a \in DOMAIN dep_map : service_name \in dep_map[a]

\* a loop that goes on to the next deployment whatever the wait said
WaitNeverAborts(available) == FALSE

\* the wait loop: `kubectl wait` with check=True, the except clause re-raises
WaitAborts(available) == ~available

\* what the verifier can meet: no health check configured, `kubectl get
\* pods` failing, an empty pod name, no curl in the container, a failing
\* curl, a passing curl
VerifierOutcomes == {"no_health_check", "no_pod", "empty_pod_name", "no_curl",
                     "probe_failed", "passed"}

\* a verifier whose outer try is missing: the pod lookup is not guarded
VerifierCatchesInnerOnly(outcome) == outcome # "no_pod"

\* every ShellError of the verifier's commands is caught inside it
VerifierCatches(outcome) == TRUE

\* _verify_service_health has no return statement with a value
VerifierReturns(outcome) == "None"

\* a loop that stops when the probe of a service did not pass
ProbeGates(outcome) == outcome # "passed"

\* the wait loop does not look at what the verifier found
ProbeStopsFlow(outcome) == FALSE

Event(ev, svc, outcome) == [ev |-> ev, svc |-> svc, outcome |-> outcome]

WaitInputs ==
    /\ impl = "manager"
    /\ wait_apps \in SUBSET WaitNames
    /\ wait_deps \in [wait_apps -> SUBSET WaitNames]
    /\ dependency_order = <<>>
    /\ wpc = "order"
    /\ wait_i = 0
    /\ waitLog = <<>>
    /\ verify_returned = "unset"
    /\ verifier_raised = FALSE
    /\ waitRc = -1

\* the position after the service at wait_i
NextInOrder == IF wait_i + 1 > Len(dependency_order) THEN "tunnels" ELSE "wait"

\* deploy_to_k3s returns False and deploy returns 1
WaitLoopAborts(events) ==
    /\ waitLog' = waitLog \o events
    /\ wpc' = "done"
    /\ waitRc' = 1
    /\ UNCHANGED wait_i

\* apps = self.load_apps(); dependency_order = _calculate_deployment_order(apps)
CalculateDeploymentOrder ==
    /\ wpc = "order"
    /\ dependency_order' \in DeploymentOrders(wait_apps, wait_deps)
    /\ wait_i' = 1
    /\ wpc' = IF dependency_order' = <<>> THEN "tunnels" ELSE "wait"
    /\ UNCHANGED <<wait_apps, wait_deps, waitLog, verify_returned, verifier_raised, waitRc>>
    /\ UNCHANGED NotWait

\* one `kubectl wait --for=condition=available --timeout=120s`; a wait that
\* fails prints the pods of the deployment and re-raises
WaitForAvailable ==
    /\ wpc = "wait"
    /\ LET deployment == dependency_order[wait_i] IN
        \E available \in BOOLEAN :
            IF WaitAborts(available)
            THEN WaitLoopAborts(<<Event("wait", deployment, "timeout"),
                                  Event("diagnostics", deployment, "-")>>)
            ELSE /\ waitLog' = Append(waitLog,
                        Event("wait", deployment, IF available THEN "available" ELSE "timeout"))
                 /\ IF HasDependents(deployment, wait_deps)
                    THEN wpc' = "probe" /\ UNCHANGED wait_i
                    ELSE wpc' = NextInOrder /\ wait_i' = wait_i + 1
                 /\ UNCHANGED waitRc
    /\ UNCHANGED <<wait_apps, wait_deps, dependency_order, verify_returned, verifier_raised>>
    /\ UNCHANGED NotWait

\* self._verify_service_health(deployment, apps)
VerifyServiceHealth ==
    /\ wpc = "probe"
    /\ LET deployment == dependency_order[wait_i] IN
        \E outcome \in VerifierOutcomes :
            IF ~VerifierCatches(outcome)
            THEN /\ WaitLoopAborts(<<Event("probe", deployment, outcome),
                                     Event("diagnostics", deployment, "-")>>)
                 /\ verifier_raised' = TRUE
                 /\ UNCHANGED verify_returned
            ELSE /\ verify_returned' = VerifierReturns(outcome)
                 /\ UNCHANGED verifier_raised
                 /\ IF ProbeStopsFlow(outcome)
                    THEN WaitLoopAborts(<<Event("probe", deployment, outcome)>>)
                    ELSE /\ waitLog' = Append(waitLog, Event("probe", deployment, outcome))
                         /\ wpc' = NextInOrder
                         /\ wait_i' = wait_i + 1
                         /\ UNCHANGED waitRc
    /\ UNCHANGED <<wait_apps, wait_deps, dependency_order>>
    /\ UNCHANGED NotWait

\* the PVC binding report, then setup_k3s_port_forwarding(); deploy_to_k3s
\* returns True and deploy sets the tunnels up once more
EstablishAppTunnels ==
    /\ wpc = "tunnels"
    /\ waitLog' = Append(waitLog, Event("tunnels", "-", "-"))
    /\ wpc' = "verify"
    /\ UNCHANGED <<wait_apps, wait_deps, dependency_order, wait_i, verify_returned,
                   verifier_raised, waitRc>>
    /\ UNCHANGED NotWait

\* verify_k3s_deployment(), then return
VerifyK3sDeployment ==
    /\ wpc = "verify"
    /\ \E ok \in BOOLEAN : waitRc' = IF ok THEN 0 ELSE 1
    /\ wpc' = "done"
    /\ UNCHANGED <<wait_apps, wait_deps, dependency_order, wait_i, waitLog, verify_returned,
                   verifier_raised>>
    /\ UNCHANGED NotWait

WaitNext ==
    \/ CalculateDeploymentOrder
    \/ WaitForAvailable
    \/ VerifyServiceHealth
    \/ EstablishAppTunnels
    \/ VerifyK3sDeployment

InitWait ==
    WaitInputs /\ ResolverIdle /\ ClusterIdle /\ PruneIdle /\ ApplyIdle /\ TunnelIdle /\ ComposeIdle /\ VaultCmdIdle /\ OpeningIdle

SpecWait == InitWait /\ [][WaitNext]_vars

\* names the passes of the resolver place before any fallback
RECURSIVE PlacedByPasses(_, _, _)
PlacedByPasses(names, dep_map, done) ==
    LET ready == ReadyToDeploy(names, dep_map, done)
    IN  IF ready = {} THEN done ELSE PlacedByPasses(names, dep_map, done \cup ready)

\* the dependencies are acyclic and all name services of the set
AcyclicAndClosed == PlacedByPasses(wait_apps, wait_deps, {}) = wait_apps

\* the loop reached `service` at position i of the log (wait or probe)
StartedAt(i, service) ==
    waitLog[i].ev \in {"wait", "probe"} /\ waitLog[i].svc = service

\* every dependency of every service the loop reached had completed its own
\* readiness wait successfully before
DependenciesAvailableFirst ==
    \A i \in 1..Len(waitLog) : \A s \in wait_apps :
        StartedAt(i, s) =>
            \A d \in wait_deps[s] :
                \E j \in 1..(i - 1) : waitLog[j] = Event("wait", d, "available")

\* C13: for every descriptor set, no service's readiness wait or health
\* probe is started before every one of its declared dependencies has
\* successfully completed its own readiness wait.
C13_DependenciesWaitedFirst == DependenciesAvailableFirst

\* C13 as amended: for every descriptor set whose dependencies are acyclic
\* and all name services of the set, no service's readiness wait or health
\* probe is started before every one of its declared dependencies has
\* successfully completed its own readiness wait.
C13_DependenciesWaitedFirstAcyclic == AcyclicAndClosed => DependenciesAvailableFirst

\* api depends on db; db was waited for and probed, then api waited for
C13_Witness ==
    /\ wait_apps = {"api", "db"}
    /\ wait_deps["api"] = {"db"}
    /\ wait_deps["db"] = {}
    /\ wpc = "done"
    /\ waitRc = 0
    /\ Len(waitLog) = 4
    /\ waitLog[1] = Event("wait", "db", "available")
    /\ waitLog[2].ev = "probe"
    /\ waitLog[3] = Event("wait", "api", "available")

\* C14: if the deployment-available wait of a service times out, the deploy
\* aborts: the pods of that service are listed, no later service is waited
\* on, no application tunnels are established, and deploy returns 1.
C14_TimeoutAborts ==
    \A i \in 1..Len(waitLog) :
        (waitLog[i].ev = "wait" /\ waitLog[i].outcome = "timeout") =>
            /\ Len(waitLog) = i + 1
            /\ waitLog[i + 1] = Event("diagnostics", waitLog[i].svc, "-")
            /\ wpc = "done"
            /\ waitRc = 1

\* the wait of the first of two services timed out
C14_Witness ==
    /\ Len(dependency_order) = 2
    /\ waitLog = <<Event("wait", dependency_order[1], "timeout"),
                   Event("diagnostics", dependency_order[1], "-")>>
    /\ wpc = "done"
    /\ waitRc = 1

\* C17: a dependency is a blocking gate: the readiness wait of a dependent
\* begins only after the health probe of each of its dependencies has
\* passed (or found no health check to run), and a failed probe stops the
\* flow.
C17_ProbeIsBlockingGate ==
    AcyclicAndClosed =>
        /\ \A i \in 1..Len(waitLog) : \A s \in wait_apps :
            (waitLog[i].ev = "wait" /\ waitLog[i].svc = s) =>
                \A d \in wait_deps[s] :
                    \E j \in 1..(i - 1) :
                        /\ waitLog[j].ev = "probe" /\ waitLog[j].svc = d
                        /\ waitLog[j].outcome \in {"passed", "no_health_check"}
        /\ \A j \in 1..Len(waitLog) :
            (waitLog[j].ev = "probe"
                    /\ waitLog[j].outcome \notin {"passed", "no_health_check"}) =>
                (j = Len(waitLog) /\ wpc = "done" /\ waitRc = 1)

\* C17 as amended: the readiness wait of a dependent begins only after the
\* health verifier has been run for each of its dependencies, whatever it
\* found; a probe that did not pass never ends the flow.
C17_ProbeIsAdvisory ==
    AcyclicAndClosed =>
        /\ \A i \in 1..Len(waitLog) : \A s \in wait_apps :
            (waitLog[i].ev = "wait" /\ waitLog[i].svc = s) =>
                \A d \in wait_deps[s] :
                    \E j \in 1..(i - 1) : waitLog[j].ev = "probe" /\ waitLog[j].svc = d
        /\ \A j \in 1..Len(waitLog) :
            (waitLog[j].ev = "probe" /\ j = Len(waitLog)) => wpc \in {"wait", "tunnels"}

\* the probe of db failed and api was waited for all the same
C17_Witness ==
    /\ wait_apps = {"api", "db"}
    /\ wait_deps["api"] = {"db"}
    /\ wait_deps["db"] = {}
    /\ Len(waitLog) = 3
    /\ waitLog[2] = Event("probe", "db", "probe_failed")
    /\ waitLog[3] = Event("wait", "api", "available")

\* the verifier has just returned
JustVerified == waitLog # <<>> /\ waitLog[Len(waitLog)].ev = "probe"

\* C18: the health verifier never raises, whatever its commands meet (no
\* pod found, no probe tool in the container, a failing probe); it yields
\* false on each of these failures and true only when the probe succeeds.
C18_VerifierYieldsBool ==
    /\ ~verifier_raised
    /\ JustVerified =>
        LET outcome == waitLog[Len(waitLog)].outcome IN
            /\ (outcome \in {"no_pod", "empty_pod_name", "no_curl", "probe_failed"})
                    => verify_returned = "False"
            /\ (verify_returned = "True") <=> (outcome = "passed")

\* C18 as amended: the health verifier never raises, whatever its commands
\* meet; it reports what it found and returns None in every case.
C18_VerifierNeverRaises ==
    /\ ~verifier_raised
    /\ JustVerified => verify_returned = "None"

\* the pod lookup failed inside the verifier and the loop went on
C18_Witness ==
    /\ JustVerified
    /\ waitLog[Len(waitLog)].outcome = "no_pod"
    /\ verify_returned = "None"
    /\ wpc = "wait"

\* some descriptor of the deployment lists svc among its dependencies
ListedAsDependency(svc) == \E a \in wait_apps : svc \in wait_deps[a]

\* C20: the health probe is run for a service if and only if at least one
\* descriptor lists that service as a dependency, and only after that
\* service's own deployment-available wait has succeeded.
C20_ProbeIffHasDependents ==
    \A i \in 1..Len(waitLog) :
        /\ (waitLog[i].ev = "probe") =>
            /\ ListedAsDependency(waitLog[i].svc)
            /\ i > 1
            /\ waitLog[i - 1] = Event("wait", waitLog[i].svc, "available")
        /\ (waitLog[i].ev = "wait" /\ waitLog[i].outcome = "available"
                /\ ListedAsDependency(waitLog[i].svc)) =>
            IF i = Len(waitLog) THEN wpc = "probe"
            ELSE waitLog[i + 1].ev = "probe" /\ waitLog[i + 1].svc = waitLog[i].svc

\* db, which api depends on, was probed after its wait; api, which nothing
\* depends on, was waited for and not probed
C20_Witness ==
    /\ wait_apps = {"api", "db"}
    /\ wait_deps["api"] = {"db"}
    /\ wait_deps["db"] = {}
    /\ wpc = "tunnels"
    /\ Len(waitLog) = 3
    /\ waitLog[2] = Event("probe", "db", "passed")
    /\ waitLog[3] = Event("wait", "api", "available")

(***************************************************************************)
(* Failure of a step: the compose deploy, and of the cluster deploy the    *)
(* cluster setup, the manifest application and the readiness wait, each    *)
(* from its own initial states.                                            *)
(***************************************************************************)
InitFailure == InitCompose \/ InitCluster \/ InitApply \/ InitWait

\* the cluster setup runs when none of the other three has been started
ClusterAlone == cpc = "idle" /\ apc = "idle" /\ wpc = "idle"

FailureNext ==
    \/ ComposeNext
    \/ ClusterAlone /\ ClusterNext
    \/ ApplyNext
    \/ WaitNext

SpecFailure == InitFailure /\ [][FailureNext]_vars

\* commands and steps that stop or delete what a deploy has created
Destructive ==
    {"k3d cluster stop", "k3d cluster delete", "docker rm", "docker network rm"}

DestructiveSteps == {"cleanup", "down"}

====
